---- MODULE Spec2Model ----
(***************************************************************************)
(* Model of the debt payoff projection (DebtManager: payoffSummary,        *)
(* formatTime) and of the reminder scheduler (App: calculateNotifications) *)
(* of the Edna-y-ronaldo finance tracker.                                  *)
(*                                                                         *)
(* JavaScript numbers are IEEE-754 doubles.  The numbers of the payoff     *)
(* projection are computed as the code computes them, double operation by  *)
(* double operation and bit for bit, on arbitrary-size integers kept as    *)
(* limb sequences.                                                         *)
(***************************************************************************)
EXTENDS Integers, Sequences, FiniteSets, TLC

(***************************************************************************)
(* Optional fields (dueDay?, interestRate?, frequency?): <<>> is           *)
(* undefined, <<v>> is the value v.                                        *)
(***************************************************************************)
undefined == <<>>

Some(v) == <<v>>

IsDefined(o) == o # <<>>

\* JavaScript truthiness of an optional number: undefined and 0 are falsy.
Truthy(o) == o # <<>> /\ o[1] # 0

\* `o || 0`
OrZero(o) == IF Truthy(o) THEN o[1] ELSE 0

(***************************************************************************)
(* Natural numbers of any size: little-endian sequences of limbs in        *)
(* 0..1023, no leading zero limb, <<>> is zero.                            *)
(***************************************************************************)
Limb(x, i) == IF i >= 1 /\ i <= Len(x) THEN x[i] ELSE 0

\* The place of the last limb that is not 0, or 0
BigTop(x) ==
    IF \A i \in 1..Len(x) : x[i] = 0 THEN 0
    ELSE CHOOSE i \in 1..Len(x) :
            x[i] # 0 /\ \A j \in (i + 1)..Len(x) : x[j] = 0

\* x without its leading zero limbs
BigNorm(x) == SubSeq(x, 1, BigTop(x))

\* 0 <= n < 2^31
BigOfInt(n) ==
    BigNorm(<<n % 1024, (n \div 1024) % 1024, (n \div 1048576) % 1024,
              n \div 1073741824>>)

\* The sum of limbs goes over at limb j and every limb from there to limb i
\* is full: 1 is carried into limb i.
CarryInto(sums, i) ==
    \E j \in 1..(i - 1) :
        sums[j] >= 1024 /\ \A l \in (j + 1)..(i - 1) : sums[l] = 1023

BigAddSums(sums) ==
    BigNorm([i \in 1..(Len(sums) + 1) |->
                (Limb(sums, i) + (IF CarryInto(sums, i) THEN 1 ELSE 0)) % 1024])

\* x + y
BigAdd(x, y) ==
    BigAddSums(SubSeq([i \in 1..(Len(x) + Len(y)) |-> Limb(x, i) + Limb(y, i)],
                      1, Len(x) + Len(y)))

\* The difference of limbs is below 0 at limb j and 0 at every limb from
\* there to limb i: 1 is borrowed from limb i.
BorrowFrom(diffs, i) ==
    \E j \in 1..(i - 1) :
        diffs[j] < 0 /\ \A l \in (j + 1)..(i - 1) : diffs[l] = 0

BigSubDiffs(diffs) ==
    BigNorm([i \in 1..Len(diffs) |->
                (diffs[i] - (IF BorrowFrom(diffs, i) THEN 1 ELSE 0)) % 1024])

\* x - y for x >= y
BigSub(x, y) ==
    BigSubDiffs(SubSeq([i \in 1..Len(x) |-> x[i] - Limb(y, i)], 1, Len(x)))

\* The sum of the products of limbs at limb i of x * y, x of at most 6 limbs
BigMulColumn(x, y, i) ==
    Limb(x, 1) * Limb(y, i) + Limb(x, 2) * Limb(y, i - 1)
    + Limb(x, 3) * Limb(y, i - 2) + Limb(x, 4) * Limb(y, i - 3)
    + Limb(x, 5) * Limb(y, i - 4) + Limb(x, 6) * Limb(y, i - 5)

\* The columns are below 2^30: the number of their digits of weight w
BigMulPart(x, y, shift, w) ==
    BigNorm([i \in 1..(Len(x) + Len(y) + 2) |->
                (BigMulColumn(x, y, i - shift) \div w) % 1024])

\* x * y, x of at most 6 limbs
BigMul(x, y) ==
    BigAdd(BigAdd(BigMulPart(x, y, 0, 1), BigMulPart(x, y, 1, 1024)),
           BigMulPart(x, y, 2, 1048576))

\* x * k for 0 <= k < 2^31
BigMulSmall(x, k) == BigMul(BigOfInt(k), x)

\* -1, 0, 1 as x < y, x = y, x > y
BigCmp(x, y) ==
    IF Len(x) < Len(y) THEN 0 - 1
    ELSE IF Len(x) > Len(y) THEN 1
    ELSE IF x = y THEN 0
    ELSE LET i == CHOOSE i \in 1..Len(x) :
                     x[i] # y[i] /\ \A j \in (i + 1)..Len(x) : x[j] = y[j]
         IN  IF x[i] < y[i] THEN 0 - 1 ELSE 1

\* 2^s for s in 0..10
Pow2(s) == <<1, 2, 4, 8, 16, 32, 64, 128, 256, 512, 1024>>[s + 1]

\* x * 2^(10 * n + b), b below 10
BigShlLimbs(x, n, b) ==
    BigNorm([i \in 1..(Len(x) + n + 1) |->
                ((Limb(x, i - n) * Pow2(b)) % 1024)
                + ((Limb(x, i - n - 1) * Pow2(b)) \div 1024)])

\* x * 2^s
BigShl(x, s) == BigShlLimbs(x, s \div 10, s % 10)

\* The number of bits of x
BigBitLen(x) ==
    IF x = <<>> THEN 0
    ELSE 10 * (Len(x) - 1) + Cardinality({j \in 0..9 : Pow2(j) <= x[Len(x)]})

\* The limbs from limb n + 1 on, cut by b bits
BigShrLimbs(x, n, b) ==
    BigNorm([i \in 1..(Len(x) - n) |->
                (x[n + i] \div Pow2(b)) + (Limb(x, n + i + 1) % Pow2(b)) * Pow2(10 - b)])

\* x = q * 2^t + rem with rem < 2^t
BigShrParts(x, t) ==
    IF t >= 10 * Len(x) THEN [q |-> <<>>, rem |-> x]
    ELSE [q   |-> BigShrLimbs(x, t \div 10, t % 10),
          rem |-> BigNorm(SubSeq(x, 1, t \div 10)
                          \o <<x[(t \div 10) + 1] % Pow2(t % 10)>>)]

BigIsOdd(x) == x # <<>> /\ x[1] % 2 = 1

\* x + 1
BigSucc(x) == BigAdd(x, <<1>>)

\* The number of zero bits at the low end of x, x above 0
BigTz(x) ==
    LET i == CHOOSE i \in 1..Len(x) : x[i] # 0 /\ \A j \in 1..(i - 1) : x[j] = 0
    IN  10 * (i - 1) + Cardinality({j \in 1..9 : x[i] % Pow2(j) = 0})

\* x below 2^31 as an integer
BigToInt(x) ==
    Limb(x, 1) + 1024 * Limb(x, 2) + 1048576 * Limb(x, 3) + 1073741824 * Limb(x, 4)

\* The digit t with d * t <= cur < d * (t + 1), cur below 1024 * d: the
\* quotient of the leading limbs of cur by those of d is t, t + 1 or t + 2.
BigDigitFrom(cur, d, t) ==
    IF t = 0 \/ BigCmp(BigMulSmall(d, t), cur) <= 0 THEN t
    ELSE IF t = 1 \/ BigCmp(BigMulSmall(d, t - 1), cur) <= 0 THEN t - 1
    ELSE t - 2

BigDigitAbout(c, d) == IF c \div d > 1023 THEN 1023 ELSE c \div d

\* d of n limbs
BigDigit(cur, d, n) ==
    BigDigitFrom(cur, d,
        BigDigitAbout(1048576 * Limb(cur, n + 1) + 1024 * Limb(cur, n) + Limb(cur, n - 1),
                      1024 * d[n] + Limb(d, n - 1)))

\* The digit t at limb i goes ahead of the digits of the limbs below
BigDivModPut(t, rest) == [q |-> Append(rest.q, t), r |-> rest.r]

\* Long division from limb i of x down, rem the remainder so far: nothing is
\* taken from the remainder where the digit is 0.
RECURSIVE BigDivModAt(_, _, _, _)
BigDivModAt(x, d, i, rem) ==
    IF i = 0 THEN [q |-> <<>>, r |-> rem]
    ELSE LET cur == BigNorm(<<x[i]>> \o rem)
             t   == BigDigit(cur, d, Len(d))
         IN  IF t = 0 THEN BigDivModPut(0, BigDivModAt(x, d, i - 1, cur))
             ELSE BigDivModPut(t, BigDivModAt(x, d, i - 1,
                                              BigSub(cur, BigMulSmall(d, t))))

BigDivModQuot(res) == [q |-> BigNorm(res.q), r |-> res.r]

\* quotient and remainder of x by d, d above 0
BigDivMod(x, d) ==
    IF Len(x) < Len(d) THEN [q |-> <<>>, r |-> x]
    ELSE BigDivModQuot(BigDivModAt(x, d, Len(x) - Len(d) + 1,
                                   SubSeq(x, Len(x) - Len(d) + 2, Len(x))))

(***************************************************************************)
(* The values a JavaScript number takes here.  A finite value is the       *)
(* IEEE-754 double s * m * 2^e (normal range): s the sign 1 or -1, m a     *)
(* natural number of at most 53 bits that is odd, or <<>> with e = 0 for   *)
(* the value 0.  Every operation rounds its exact result to 53 bits, ties  *)
(* to even.                                                                *)
(***************************************************************************)
Zero == [k |-> "fin", s |-> 1, m |-> <<>>, e |-> 0]

Infinity == [k |-> "inf", s |-> 1, m |-> <<>>, e |-> 0]

NegInfinity == [k |-> "-inf", s |-> 0 - 1, m |-> <<>>, e |-> 0]

NaN == [k |-> "nan", s |-> 1, m |-> <<>>, e |-> 0]

\* q * 2^e, q of 53 bits, with c the comparison of what was cut off with
\* half a unit of q: up when above, or at the half and q odd (or sticky).
RoundUp(q, c, e, sticky) ==
    [m |-> IF c > 0 \/ (c = 0 /\ (sticky \/ BigIsOdd(q))) THEN BigSucc(q) ELSE q,
     e |-> e]

RoundParts(parts, half, e, sticky) ==
    RoundUp(parts.q, BigCmp(parts.rem, half), e, sticky)

\* N rounded with its t low bits cut off
RoundAt(N, e, sticky, t) ==
    RoundParts(BigShrParts(N, t), BigShl(<<1>>, t - 1), e + t, sticky)

\* N * 2^e (plus, when sticky, a positive part below one unit of N) rounded
\* to 53 significant bits, ties to even.
RoundD(N, e, sticky) ==
    IF BigBitLen(N) <= 53 THEN [m |-> N, e |-> e]
    ELSE RoundAt(N, e, sticky, BigBitLen(N) - 53)

DStrip(s, m, e, t) ==
    [k |-> "fin", s |-> s, m |-> BigShrParts(m, t).q, e |-> e + t]

\* The double s * r.m * 2^(r.e) with its mantissa made odd
DOf(s, r) == IF r.m = <<>> THEN Zero ELSE DStrip(s, r.m, r.e, BigTz(r.m))

\* s * N * 2^e rounded to a double
Round(s, N, e, sticky) == DOf(s, RoundD(N, e, sticky))

\* the double of an integer -2^31 < n < 2^31
NumD(n) ==
    IF n < 0 THEN Round(0 - 1, BigOfInt(0 - n), 0, FALSE)
    ELSE Round(1, BigOfInt(n), 0, FALSE)

DAddBig(sx, X, sy, Y, e) ==
    IF sx = sy THEN Round(sx, BigAdd(X, Y), e, FALSE)
    ELSE IF BigCmp(X, Y) >= 0 THEN Round(sx, BigSub(X, Y), e, FALSE)
    ELSE Round(sy, BigSub(Y, X), e, FALSE)

\* x + y
DAdd(x, y) ==
    IF x.k = "nan" \/ y.k = "nan" THEN NaN
    ELSE IF x.k = "fin" /\ y.k = "fin"
         THEN DAddBig(x.s, BigShl(x.m, x.e - (IF x.e < y.e THEN x.e ELSE y.e)),
                      y.s, BigShl(y.m, y.e - (IF x.e < y.e THEN x.e ELSE y.e)),
                      IF x.e < y.e THEN x.e ELSE y.e)
    ELSE IF x.k = "fin" THEN y
    ELSE IF y.k = "fin" \/ x.k = y.k THEN x
    ELSE NaN

\* -x
DNeg(x) ==
    IF x.k = "inf" THEN NegInfinity
    ELSE IF x.k = "-inf" THEN Infinity
    ELSE [x EXCEPT !.s = 0 - @]

\* x - y
DSub(x, y) ==
    IF x.k = "nan" \/ y.k = "nan" THEN NaN
    ELSE IF x.k = "fin" /\ y.k = "fin"
         THEN DAddBig(x.s, BigShl(x.m, x.e - (IF x.e < y.e THEN x.e ELSE y.e)),
                      0 - y.s, BigShl(y.m, y.e - (IF x.e < y.e THEN x.e ELSE y.e)),
                      IF x.e < y.e THEN x.e ELSE y.e)
    ELSE IF x.k = "fin" THEN DNeg(y)
    ELSE IF y.k = "fin" \/ x.k # y.k THEN x
    ELSE NaN

\* x === 0
IsZeroD(x) == x.k = "fin" /\ x.m = <<>>

\* x * y
DMul(x, y) ==
    IF x.k = "nan" \/ y.k = "nan" THEN NaN
    ELSE IF x.k = "fin" /\ y.k = "fin"
         THEN Round(x.s * y.s, BigMul(x.m, y.m), x.e + y.e, FALSE)
    ELSE IF IsZeroD(x) \/ IsZeroD(y) THEN NaN
    ELSE IF x.s = y.s THEN Infinity ELSE NegInfinity

DQuot(s, d, e) == Round(s, d.q, e, d.r # <<>>)

\* The quotient is taken to 56 bits or more ahead of the rounding.
DDivBy(x, y, t) ==
    DQuot(x.s * y.s, BigDivMod(BigShl(x.m, t), y.m), x.e - y.e - t)

\* x / y
DDiv(x, y) ==
    IF x.k = "nan" \/ y.k = "nan" THEN NaN
    ELSE IF x.k # "fin" THEN
        (IF y.k # "fin" THEN NaN
         ELSE IF x.s = y.s THEN Infinity ELSE NegInfinity)
    ELSE IF y.k # "fin" THEN Zero
    ELSE IF IsZeroD(y) THEN
        (IF IsZeroD(x) THEN NaN
         ELSE IF x.s = y.s THEN Infinity ELSE NegInfinity)
    ELSE IF IsZeroD(x) THEN Zero
    ELSE DDivBy(x, y, 56 + BigBitLen(y.m) - BigBitLen(x.m))

\* x < 0 and x > 0; both are false of NaN
NumNeg(x) == x.k = "-inf" \/ (x.k = "fin" /\ x.s < 0 /\ x.m # <<>>)

NumPos(x) == x.k = "inf" \/ (x.k = "fin" /\ x.s > 0 /\ x.m # <<>>)

\* x <= y
DLeq(x, y) == ~NumPos(DSub(x, y))

\* Math.floor(x) of a finite double 0 <= x < 2^31
DFloor(x) ==
    IF x.e >= 0 THEN BigToInt(BigShl(x.m, x.e))
    ELSE BigToInt(BigShrParts(x.m, 0 - x.e).q)

(***************************************************************************)
(* Math.log as the engine computes it (V8: ieee754::log, the fdlibm        *)
(* algorithm), every step a double operation, for x in the normal range.   *)
(* x = 2^k * (1 + f) with sqrt(2)/2 < 1 + f < sqrt(2); s = f / (2 + f);    *)
(* log(1 + f) = 2s + s * R(s^2), R a polynomial of degree 14 in s;         *)
(* log(x) = k * ln2 + log(1 + f), ln2 in two parts.                        *)
(***************************************************************************)
One == NumD(1)

Two == NumD(2)

Half == [k |-> "fin", s |-> 1, m |-> <<1>>, e |-> 0 - 1]

\* 0.33333333333333333
Third == [k |-> "fin", s |-> 1, m |-> <<341, 341, 341, 341, 341, 5>>, e |-> 0 - 54]

\* 6.93147180369123816490e-01
ln2_hi == [k |-> "fin", s |-> 1, m |-> <<1015, 133, 791, 2>>, e |-> 0 - 32]

\* 1.90821492927058770002e-10
ln2_lo == [k |-> "fin", s |-> 1, m |-> <<571, 807, 427, 990, 284, 3>>, e |-> 0 - 84]

\* 6.666666666666735130e-01
Lg1 == [k |-> "fin", s |-> 1, m |-> <<403, 341, 341, 341, 341, 5>>, e |-> 0 - 53]

\* 3.999999999940941908e-01
Lg2 == [k |-> "fin", s |-> 1, m |-> <<641, 383, 614, 409, 614, 1>>, e |-> 0 - 52]

\* 2.857142874366239149e-01
Lg3 == [k |-> "fin", s |-> 1, m |-> <<857, 164, 322, 146, 585, 4>>, e |-> 0 - 54]

\* 2.222219843214978396e-01
Lg4 == [k |-> "fin", s |-> 1, m |-> <<175, 926, 472, 788, 113, 7>>, e |-> 0 - 55]

\* 1.818357216161805012e-01
Lg5 == [k |-> "fin", s |-> 1, m |-> <<495, 352, 182, 201, 931, 2>>, e |-> 0 - 54]

\* 1.531383769920937332e-01
Lg6 == [k |-> "fin", s |-> 1, m |-> <<671, 561, 263, 39, 922, 4>>, e |-> 0 - 55]

\* 1.479819860511658591e-01
Lg7 == [k |-> "fin", s |-> 1, m |-> <<145, 997, 892, 274, 188, 1>>, e |-> 0 - 53]

\* t1 = w * (Lg2 + w * (Lg4 + w * Lg6))
LogT1(w) == DMul(w, DAdd(Lg2, DMul(w, DAdd(Lg4, DMul(w, Lg6)))))

\* t2 = z * (Lg1 + w * (Lg3 + w * (Lg5 + w * Lg7)))
LogT2(z, w) ==
    DMul(z, DAdd(Lg1, DMul(w, DAdd(Lg3, DMul(w, DAdd(Lg5, DMul(w, Lg7)))))))

\* -2^-20 <= f < 2^-20: R = f * f * (0.5 - 0.33333333333333333 * f)
LogNearOneR(k, f, dk, R) ==
    IF k = 0 THEN DSub(f, R)
    ELSE DSub(DMul(dk, ln2_hi), DSub(DSub(R, DMul(dk, ln2_lo)), f))

LogNearOne(k, f, dk) ==
    IF IsZeroD(f)
    THEN (IF k = 0 THEN Zero ELSE DAdd(DMul(dk, ln2_hi), DMul(dk, ln2_lo)))
    ELSE LogNearOneR(k, f, dk, DMul(DMul(f, f), DSub(Half, DMul(Third, f))))

\* i > 0: hfsq = 0.5 * f * f
LogMid(k, f, s, R, dk, hfsq) ==
    IF k = 0 THEN DSub(f, DSub(hfsq, DMul(s, DAdd(hfsq, R))))
    ELSE DSub(DMul(dk, ln2_hi),
              DSub(DSub(hfsq, DAdd(DMul(s, DAdd(hfsq, R)), DMul(dk, ln2_lo))), f))

\* i <= 0
LogOuter(k, f, s, R, dk) ==
    IF k = 0 THEN DSub(f, DMul(s, DSub(f, R)))
    ELSE DSub(DMul(dk, ln2_hi),
              DSub(DSub(DMul(s, DSub(f, R)), DMul(dk, ln2_lo)), f))

\* i = hx - 0x6147A, j = 0x6B851 - hx, i |= j
LogPick(k, hx, f, s, R) ==
    IF hx >= 398458 /\ hx <= 440401
    THEN LogMid(k, f, s, R, NumD(k), DMul(DMul(Half, f), f))
    ELSE LogOuter(k, f, s, R, NumD(k))

LogW(k, hx, f, s, z, w) == LogPick(k, hx, f, s, DAdd(LogT2(z, w), LogT1(w)))

LogZ(k, hx, f, s, z) == LogW(k, hx, f, s, z, DMul(z, z))

LogS(k, hx, f, s) == LogZ(k, hx, f, s, DMul(s, s))

\* (0x000FFFFF & (2 + hx)) < 3, else s = f / (2.0 + f)
LogF(k, hx, f) ==
    IF hx \in {0, 1048574, 1048575} THEN LogNearOne(k, f, NumD(k))
    ELSE LogS(k, hx, f, DDiv(f, DAdd(Two, f)))

\* i = (hx + 0x95F64) & 0x100000: x or x / 2 is taken, f = x - 1.0
LogHigh(m53, k, hx) ==
    IF hx >= 434332
    THEN LogF(k + 1, hx, DSub(Round(1, m53, 0 - 53, FALSE), One))
    ELSE LogF(k, hx, DSub(Round(1, m53, 0 - 52, FALSE), One))

\* m53 the mantissa of 53 bits, hx the 20 bits below its leading 1
LogMantissa(m53, k) ==
    LogHigh(m53, k, BigToInt(BigShrParts(m53, 32).q) - 1048576)

\* Math.log(x)
LogD(x) ==
    IF x.k = "nan" \/ NumNeg(x) THEN NaN
    ELSE IF IsZeroD(x) THEN NegInfinity
    ELSE IF x.k = "inf" THEN Infinity
    ELSE LogMantissa(BigShl(x.m, 53 - BigBitLen(x.m)), x.e + BigBitLen(x.m) - 1)

\* Math.log(a / (a - p * r)) / Math.log(1 + r), pr the double p * r
NperMonths(a, pr, r) ==
    DDiv(LogD(DDiv(a, DSub(a, pr))), LogD(DAdd(One, r)))

\* const r = (debt.interestRate || 0) / 100 / 12
MonthlyRateD(rate) == DDiv(DDiv(NumD(rate), NumD(100)), NumD(12))

(***************************************************************************)
(* DebtManager: the payoff summary.                                        *)
(***************************************************************************)
\* r is not 0: the test a <= p * r and the logarithms, pr the double p * r
MonthsAtInterest(a, pr, r) ==
    IF DLeq(a, pr) THEN Infinity ELSE NperMonths(a, pr, r)

\* MonthsAtRate with the linear payoff rounded up to whole months.
MonthsAtRateWholeMonths(p, a, r) ==
    IF IsZeroD(r) THEN NumD((p + a - 1) \div a)
    ELSE MonthsAtInterest(NumD(a), DMul(NumD(p), r), r)

\* The branch of a balance and a payment above 0, r the monthly rate
MonthsAtRate(p, a, r) ==
    IF IsZeroD(r) THEN DDiv(NumD(p), NumD(a))
    ELSE MonthsAtInterest(NumD(a), DMul(NumD(p), r), r)

\* MonthsOf with the payment test ahead of the balance test.
MonthsOfPaymentFirst(p, a, rate) ==
    IF a <= 0 THEN Infinity
    ELSE IF p <= 0 THEN Zero
    ELSE MonthsAtRate(p, a, MonthlyRateD(OrZero(rate)))

\* The months computed for one debt by the callback of data.debts.map:
\* p = currentAmount, a = minPayment, rate = interestRate (optional), whole
\* numbers with rate at 0 or above.
MonthsOf(p, a, rate) ==
    IF p <= 0 THEN Zero
    ELSE IF a <= 0 THEN Infinity
    ELSE MonthsAtRate(p, a, MonthlyRateD(OrZero(rate)))

\* The text for y = Math.floor(months / 12) and m = Math.ceil(months % 12)
FormatYearsMonths(y, m) ==
    IF y > 0
    THEN <<ToString(y), " año", IF y > 1 THEN "s" ELSE "", " ",
           ToString(m), " mes", IF m # 1 THEN "es" ELSE "">>
    ELSE <<ToString(m), " mes", IF m # 1 THEN "es" ELSE "">>

\* formatTime(months): the pieces of the text.  months % 12 is exact: the
\* whole part of months modulo 12, and the fraction of months.
formatTime(months) ==
    IF months = Zero THEN <<"Pagado">>
    ELSE IF months = Infinity THEN <<"Nunca (Interés > Pago)">>
    ELSE FormatYearsMonths(DFloor(DDiv(months, NumD(12))),
                           (DFloor(months) % 12) + (IF months.e < 0 THEN 1 ELSE 0))

\* The comparator of the sort: a.payoffMonths - b.payoffMonths
ComparePayoff(a, b) == DSub(a.payoffMonths, b.payoffMonths)

\* InsertSorted that also moves x ahead of the entries it ties with.
RECURSIVE InsertSortedTiesFirst(_, _, _)
InsertSortedTiesFirst(sorted, x, j) ==
    IF j = 0 \/ NumNeg(ComparePayoff(sorted[j], x))
    THEN SubSeq(sorted, 1, j) \o <<x>> \o SubSeq(sorted, j + 1, Len(sorted))
    ELSE InsertSortedTiesFirst(sorted, x, j - 1)

\* Array.prototype.sort is stable; a comparator result that is not above 0
\* (0, NaN or below 0) leaves a before b.  x goes behind the last entry of
\* the sorted prefix that is not to come after it.
RECURSIVE InsertSorted(_, _, _)
InsertSorted(sorted, x, j) ==
    IF j = 0 \/ ~NumPos(ComparePayoff(sorted[j], x))
    THEN SubSeq(sorted, 1, j) \o <<x>> \o SubSeq(sorted, j + 1, Len(sorted))
    ELSE InsertSorted(sorted, x, j - 1)

RECURSIVE SortFrom(_, _, _)
SortFrom(list, i, sorted) ==
    IF i > Len(list) THEN sorted
    ELSE SortFrom(list, i + 1, InsertSorted(sorted, list[i], Len(sorted)))

SortByPayoff(list) == SortFrom(list, 1, <<>>)

(***************************************************************************)
(* App: calculateNotifications.  An id and a message are the pieces of     *)
(* their template string.                                                  *)
(***************************************************************************)
\* 1. Monthly check-in
CheckInNotes(currentDay) ==
    IF currentDay <= 3
    THEN << [id      |-> <<"monthly-checkin">>,
             type    |-> "info",
             title   |-> "Inicio de Mes",
             message |-> <<"Es momento de registrar tus ingresos del mes para actualizar el presupuesto.">>] >>
    ELSE <<>>

\* DebtNotes without the test of the balance.
DebtNotesAnyBalance(debt, currentDay) ==
    IF Truthy(debt.dueDay)
    THEN LET dueDay == debt.dueDay[1]
         IN  IF currentDay = dueDay
             THEN << [id      |-> <<"debt-due-", debt.id>>,
                      type    |-> "warning",
                      title   |-> "¡Vencimiento Hoy!",
                      message |-> <<"El pago mínimo de ", debt.name,
                                    " vence hoy. Evita recargos.">>] >>
             ELSE IF dueDay > currentDay /\ dueDay <= currentDay + 3
             THEN << [id      |-> <<"debt-upcoming-", debt.id>>,
                      type    |-> "info",
                      title   |-> "Pago Próximo",
                      message |-> <<"El pago de ", debt.name, " es en ",
                                    ToString(dueDay - currentDay), " días.">>] >>
             ELSE <<>>
    ELSE <<>>

\* 2. Debt due dates: what the forEach callback pushes for one debt
DebtNotes(debt, currentDay) ==
    IF debt.currentAmount > 0 /\ Truthy(debt.dueDay)
    THEN LET dueDay == debt.dueDay[1]
         IN  IF currentDay = dueDay
             THEN << [id      |-> <<"debt-due-", debt.id>>,
                      type    |-> "warning",
                      title   |-> "¡Vencimiento Hoy!",
                      message |-> <<"El pago mínimo de ", debt.name,
                                    " vence hoy. Evita recargos.">>] >>
             ELSE IF dueDay > currentDay /\ dueDay <= currentDay + 3
             THEN << [id      |-> <<"debt-upcoming-", debt.id>>,
                      type    |-> "info",
                      title   |-> "Pago Próximo",
                      message |-> <<"El pago de ", debt.name, " es en ",
                                    ToString(dueDay - currentDay), " días.">>] >>
             ELSE <<>>
    ELSE <<>>

\* !exp.frequency || exp.frequency === 'Monthly'
IsMonthly(exp) == exp.frequency \in {undefined, Some(""), Some("Monthly")}

\* The three tests in turn: [shouldNotify, msg] after each.
AfterMonthly(exp, currentDay) ==
    IF IsMonthly(exp) /\ Truthy(exp.dueDay) /\ currentDay = exp.dueDay[1]
    THEN [shouldNotify |-> TRUE,
          msg |-> <<"Hoy corresponde pagar/apartar: ", exp.name, ".">>]
    ELSE [shouldNotify |-> FALSE, msg |-> <<"">>]

\* AfterWeekly taking a dueDay of 0 (Sunday) for none.
AfterWeeklyTruthy(exp, currentDay, currentDayOfWeek) ==
    IF /\ exp.frequency = Some("Weekly")
       /\ Truthy(exp.dueDay)
       /\ currentDayOfWeek = exp.dueDay[1]
    THEN [shouldNotify |-> TRUE,
          msg |-> <<"Semanal: Hoy toca el gasto de ", exp.name, ".">>]
    ELSE AfterMonthly(exp, currentDay)

AfterWeekly(exp, currentDay, currentDayOfWeek) ==
    IF /\ exp.frequency = Some("Weekly")
       /\ IsDefined(exp.dueDay)
       /\ currentDayOfWeek = exp.dueDay[1]
    THEN [shouldNotify |-> TRUE,
          msg |-> <<"Semanal: Hoy toca el gasto de ", exp.name, ".">>]
    ELSE AfterMonthly(exp, currentDay)

\* AfterBiWeekly with a second anchor 14 days on.
AfterBiWeeklyFortnight(exp, currentDay, currentDayOfWeek) ==
    IF /\ exp.frequency = Some("Bi-weekly")
       /\ Truthy(exp.dueDay)
       /\ (currentDay = exp.dueDay[1] \/ currentDay = exp.dueDay[1] + 14)
    THEN [shouldNotify |-> TRUE,
          msg |-> <<"Quincenal: Hoy corresponde el gasto de ", exp.name, ".">>]
    ELSE AfterWeekly(exp, currentDay, currentDayOfWeek)

\* AfterBiWeekly taking a dueDay of 0 for a day.
AfterBiWeeklyAnyDueDay(exp, currentDay, currentDayOfWeek) ==
    IF /\ exp.frequency = Some("Bi-weekly")
       /\ IsDefined(exp.dueDay)
       /\ (currentDay = exp.dueDay[1] \/ currentDay = exp.dueDay[1] + 15)
    THEN [shouldNotify |-> TRUE,
          msg |-> <<"Quincenal: Hoy corresponde el gasto de ", exp.name, ".">>]
    ELSE AfterWeekly(exp, currentDay, currentDayOfWeek)

AfterBiWeekly(exp, currentDay, currentDayOfWeek) ==
    IF /\ exp.frequency = Some("Bi-weekly")
       /\ Truthy(exp.dueDay)
       /\ (currentDay = exp.dueDay[1] \/ currentDay = exp.dueDay[1] + 15)
    THEN [shouldNotify |-> TRUE,
          msg |-> <<"Quincenal: Hoy corresponde el gasto de ", exp.name, ".">>]
    ELSE AfterWeekly(exp, currentDay, currentDayOfWeek)

\* 3. Expense reminders: what the forEach callback pushes for one expense
ExpenseNotes(exp, currentDay, currentDayOfWeek, time) ==
    LET s == AfterBiWeekly(exp, currentDay, currentDayOfWeek)
    IN  IF s.shouldNotify
        THEN << [id      |-> <<"exp-", exp.id, "-", ToString(time)>>,
                 type    |-> "info",
                 title   |-> "Gasto Fijo",
                 message |-> s.msg] >>
        ELSE <<>>

RECURSIVE Flatten(_)
Flatten(lists) ==
    IF lists = <<>> THEN <<>> ELSE Head(lists) \o Flatten(Tail(lists))

\* NotesOf with the check-in standing alone on the days it is due.
NotesOfCheckInAlone(snapshot, now) ==
    IF CheckInNotes(now.day) # <<>> THEN CheckInNotes(now.day)
    ELSE Flatten([i \in 1..Len(snapshot.debts) |-> DebtNotes(snapshot.debts[i], now.day)])
         \o Flatten([i \in 1..Len(snapshot.expenses) |->
                        ExpenseNotes(snapshot.expenses[i], now.day, now.dow, now.time)])

\* The notes calculateNotifications builds from the snapshot at the instant
\* now = [day, dow, time]: today.getDate(), today.getDay(), today.getTime().
NotesOf(snapshot, now) ==
    CheckInNotes(now.day)
    \o Flatten([i \in 1..Len(snapshot.debts) |-> DebtNotes(snapshot.debts[i], now.day)])
    \o Flatten([i \in 1..Len(snapshot.expenses) |->
                   ExpenseNotes(snapshot.expenses[i], now.day, now.dow, now.time)])

(***************************************************************************)
(* State.                                                                  *)
(***************************************************************************)
VARIABLES
    data,           \* the FinancialState snapshot: [debts, expenses] and, in a
                    \* session, incomes, payments and history (references)
    payoffSummary,  \* DebtManager: the memoised, sorted payoff summary
    timeCells,      \* DebtManager: the "Tiempo Estimado" cell of each row
    view,           \* "app" before DebtManager is rendered, "debts" once it is
    today,          \* the instant `new Date()` returns: [day, dow, time]
    notifications,  \* App: the notifications state
    evalLog,        \* the last two runs of calculateNotifications, newest last
    phase,          \* App: "init", "mounted", "crashed" or "unmounted"
    pending,        \* passive effects not yet run: "none", "mount" or "data"
    currentUser,    \* App: the currentUser state, 'Edna' or 'Ronaldo'
    pushEnabled,    \* App: the pushEnabled state
    requesting,     \* Notification.requestPermission() has not resolved yet
    listening,      \* the 'storage' listener is registered
    timers,         \* the active intervals: [id, data] (data of the closure)
    interval,       \* the interval of the last run of the effect, 0 for none
    heap,           \* the history entry objects, by reference
    ops,            \* [n, ids]: handler calls and platform changes so far, and
                    \* the ids generateId has given
    lastOp,         \* the last step that called setData or a handler
    permission,     \* Notification.permission
    visibility,     \* document.visibilityState
    alerts,         \* the system notifications shown
    storage,        \* localStorage: the value under 'finances_er_v1'
    events,         \* the 'storage' events not yet dispatched to this session
    utcDate,        \* new Date().toISOString().split('T')[0]: <<month, day>>
    uncaught,       \* the errors no handler caught
    sessions        \* two sessions side by side: of each its [data, pending, events]

\* The App component and its platform
appVars == <<phase, pending, currentUser, pushEnabled, requesting, listening, timers,
             interval, heap, ops, lastOp>>

platformVars == <<permission, visibility, alerts, storage, events, utcDate, uncaught>>

vars == <<data, payoffSummary, timeCells, view, today, notifications, evalLog,
          appVars, platformVars, sessions>>

\* No session is mounted: only the computations are looked at.
NoSession ==
    /\ phase = "init"
    /\ pending = "none"
    /\ currentUser = "Edna"
    /\ pushEnabled = FALSE
    /\ requesting = FALSE
    /\ listening = FALSE
    /\ timers = {}
    /\ interval = 0
    /\ heap = <<>>
    /\ ops = [n |-> 0, ids |-> 0]
    /\ lastOp = [name |-> "none"]
    /\ permission = "default"
    /\ visibility = "visible"
    /\ alerts = <<>>
    /\ storage = undefined
    /\ events = <<>>
    /\ utcDate = <<"2024-02", "-15">>
    /\ uncaught = <<>>
    /\ sessions = <<>>

\* Bounds of the model.
MaxDebts == 3

\* Ids are taken in order of creation: '1', '2', ...
IdOf(i) == ToString(i)

NameOf(i) == "Deuda " \o ToString(i)

\* All sequences over S of length 0..n
RECURSIVE SeqsUpTo(_, _)
SeqsUpTo(S, n) ==
    IF n = 0 THEN {<<>>}
    ELSE LET shorter == SeqsUpTo(S, n - 1)
         IN  shorter \cup {Append(q, x) : q \in {t \in shorter : Len(t) = n - 1}, x \in S}

(***************************************************************************)
(* The debts the payoff summary is computed for:                           *)
(* <<currentAmount, minPayment, interestRate>>.                            *)
(***************************************************************************)
PayoffKinds ==
    { <<0, 0, undefined>>,            \* nothing owed, nothing paid
      <<0 - 500, 2500, Some(45)>>,    \* overpaid
      <<0, 1000, Some(0)>>,
      <<10000, 0, undefined>>,        \* no payment
      <<15000, 0 - 50, Some(65)>>,
      <<10000, 50, Some(60)>>,        \* interest 500 a month
      <<12000, 100, Some(10)>>,       \* interest 100 a month
      <<10000, 500, Some(60)>>,       \* interest 500 a month
      <<45000, 2500, Some(45)>>,      \* interest 1687.5 a month
      <<44800, 2500, Some(45)>>,      \* paid off in the same month as the last
      <<15000, 1000, Some(65)>>,      \* interest 812.5 a month
      <<10000, 50, Some(0)>>,
      <<10000, 50, undefined>>,
      <<10000, 3000, Some(0)>>,
      <<45000, 2500, undefined>> }

MonthsOfKind(t) == MonthsOf(t[1], t[2], t[3])

\* The months of every kind, computed once: pairs <<kind, months>>.
MonthsTable == { <<t, MonthsOfKind(t)>> : t \in PayoffKinds }

\* payoffMonths of a debt of the snapshot
PayoffMonths(debt) ==
    (CHOOSE row \in MonthsTable :
        row[1] = <<debt.currentAmount, debt.minPayment, debt.interestRate>>)[2]

\* data.debts.map(debt => ({...debt, payoffMonths: months})).sort(...)
PayoffSummaryOf(debts) ==
    SortByPayoff([i \in 1..Len(debts) |->
        [id |-> debts[i].id, name |-> debts[i].name,
         currentAmount |-> debts[i].currentAmount,
         minPayment |-> debts[i].minPayment,
         interestRate |-> debts[i].interestRate,
         dueDay |-> debts[i].dueDay,
         payoffMonths |-> PayoffMonths(debts[i])]])

PayoffDebt(i, t) ==
    [id |-> IdOf(i), name |-> NameOf(i), currentAmount |-> t[1],
     minPayment |-> t[2], interestRate |-> t[3], dueDay |-> undefined]

PayoffDebtLists ==
    { [i \in 1..Len(q) |-> PayoffDebt(i, q[i])] : q \in SeqsUpTo(PayoffKinds, MaxDebts) }

NoDate == [day |-> 1, dow |-> 0, time |-> 0]

InitPayoff ==
    /\ NoSession
    /\ data \in { [debts |-> d, expenses |-> <<>>] : d \in PayoffDebtLists }
    /\ payoffSummary = <<>>
    /\ timeCells = <<>>
    /\ view = "app"
    /\ today = NoDate
    /\ notifications = <<>>
    /\ evalLog = <<>>

\* DebtManager renders: the memo computes the summary of data.debts and, when
\* there are debts, the table shows formatTime of each row.
RenderDebtManager ==
    /\ view = "app"
    /\ view' = "debts"
    /\ payoffSummary' = PayoffSummaryOf(data.debts)
    /\ timeCells' = [i \in 1..Len(payoffSummary') |->
                        formatTime(payoffSummary'[i].payoffMonths)]
    /\ UNCHANGED <<data, today, notifications, evalLog>>
    /\ UNCHANGED <<appVars, platformVars>>
    /\ UNCHANGED sessions

NextPayoff == RenderDebtManager

SpecPayoff == InitPayoff /\ [][NextPayoff]_vars

(***************************************************************************)
(* Reminders.  The snapshots: debts <<currentAmount, dueDay>> and expenses *)
(* <<frequency, dueDay>>.                                                  *)
(***************************************************************************)
MaxItems == 2

MaxRemindItems == 1

MaxTime == 1

DaysOfMonth == 1..31

DaysOfWeek == 0..6

DebtKinds ==
    { <<100, Some(15)>>, <<100, Some(2)>>, <<0, Some(15)>>, <<100, undefined>> }

ExpenseKinds ==
    { <<undefined, Some(5)>>,
      <<Some("Monthly"), Some(15)>>,
      <<Some("Weekly"), Some(1)>>,
      <<Some("Weekly"), Some(0)>>,
      <<Some("Bi-weekly"), Some(1)>>,
      <<Some("Bi-weekly"), Some(15)>>,
      <<Some("Bi-weekly"), Some(16)>>,
      <<Some("Bi-weekly"), Some(20)>>,
      <<Some("Bi-weekly"), Some(0)>>,
      <<Some("Bi-weekly"), undefined>> }

ReminderDebt(i, t) ==
    [id |-> IdOf(i), name |-> NameOf(i), currentAmount |-> t[1],
     minPayment |-> 50, interestRate |-> undefined, dueDay |-> t[2]]

ReminderExpense(i, t) ==
    [id |-> IdOf(i), name |-> "Gasto " \o ToString(i),
     frequency |-> t[1], dueDay |-> t[2]]

\* The snapshots of at most n debts and expenses
SnapshotsUpTo(n) ==
    { [debts    |-> [i \in 1..Len(dq) |-> ReminderDebt(i, dq[i])],
       expenses |-> [i \in 1..Len(eq) |-> ReminderExpense(i, eq[i])]] :
      <<dq, eq>> \in { pr \in SeqsUpTo(DebtKinds, n) \X SeqsUpTo(ExpenseKinds, n) :
                       Len(pr[1]) + Len(pr[2]) <= n } }

\* calculateNotifications adding to the items already there.
calculateNotificationsAppending ==
    /\ view = "app"
    /\ notifications' = notifications \o NotesOf(data, today)
    /\ evalLog' = (IF Len(evalLog) = 2 THEN Tail(evalLog) ELSE evalLog)
                  \o << [today |-> today, data |-> data,
                         notes |-> notifications \o NotesOf(data, today)] >>
    /\ UNCHANGED <<data, today, payoffSummary, timeCells, view>>
    /\ UNCHANGED <<appVars, platformVars>>
    /\ UNCHANGED sessions

\* The effect body: new Date() is read, the notes are built from data and
\* set as the notifications.  evalLog keeps the last two runs.
calculateNotifications ==
    /\ view = "app"
    /\ notifications' = NotesOf(data, today)
    /\ evalLog' = (IF Len(evalLog) = 2 THEN Tail(evalLog) ELSE evalLog)
                  \o << [today |-> today, data |-> data,
                         notes |-> NotesOf(data, today)] >>
    /\ UNCHANGED <<data, today, payoffSummary, timeCells, view>>
    /\ UNCHANGED <<appVars, platformVars>>
    /\ UNCHANGED sessions

\* The rules on one snapshot and one date, evaluated once.
InitRules ==
    /\ NoSession
    /\ data \in SnapshotsUpTo(MaxItems)
    /\ today \in [day : DaysOfMonth, dow : DaysOfWeek, time : {0}]
    /\ notifications = <<>>
    /\ evalLog = <<>>
    /\ payoffSummary = <<>>
    /\ timeCells = <<>>
    /\ view = "app"

EvaluateOnce == evalLog = <<>> /\ calculateNotifications

NextRules == EvaluateOnce

SpecRules == InitRules /\ [][NextRules]_vars

\* The clock moves within the day.
TimePasses ==
    /\ today.time < MaxTime
    /\ today' = [today EXCEPT !.time = @ + 1]
    /\ UNCHANGED <<data, notifications, evalLog, payoffSummary, timeCells, view>>
    /\ UNCHANGED <<appVars, platformVars>>
    /\ UNCHANGED sessions

\* The last day of a month
LastDays == 28..31

\* The clock passes midnight: the day after the last day of the month is the
\* 1st, and the weekday moves on by one.
Midnight ==
    /\ today.time < MaxTime
    /\ \E last \in LastDays :
          /\ today.day <= last
          /\ today' = [day  |-> IF today.day = last THEN 1 ELSE today.day + 1,
                       dow  |-> (today.dow + 1) % 7,
                       time |-> today.time + 1]
    /\ UNCHANGED <<data, notifications, evalLog, payoffSummary, timeCells, view>>
    /\ UNCHANGED <<appVars, platformVars>>
    /\ UNCHANGED sessions

\* A session: the effect runs on mount and again on every tick of its
\* interval, while the clock moves.
InitRemind ==
    /\ NoSession
    /\ data \in SnapshotsUpTo(MaxRemindItems)
    /\ today \in [day : DaysOfMonth, dow : DaysOfWeek, time : {0}]
    /\ notifications = <<>>
    /\ evalLog = <<>>
    /\ payoffSummary = <<>>
    /\ timeCells = <<>>
    /\ view = "app"

NextRemind == calculateNotifications \/ TimePasses \/ Midnight

SpecRemind == InitRemind /\ [][NextRemind]_vars

(***************************************************************************)
(* Properties of the payoff summary (SpecPayoff).                          *)
(***************************************************************************)
Rendered == view = "debts"

Rows == 1..Len(payoffSummary)

\* x.m * 2^(x.e) < y.m * 2^(y.e), in the units 2^e of the lower exponent
MantissaLess(x, y, e) ==
    BigCmp(BigShl(x.m, x.e - e), BigShl(y.m, y.e - e)) < 0

\* x is a shorter horizon than y: finite below finite by value (neither is
\* below 0), finite below the impossible payoff.
HorizonLess(x, y) ==
    /\ x.k = "fin"
    /\ \/ y.k = "inf"
       \/ y.k = "fin" /\ MantissaLess(x, y, IF x.e < y.e THEN x.e ELSE y.e)

\* The place of the debt with this id in data.debts
PlaceOf(id) == CHOOSE i \in 1..Len(data.debts) : data.debts[i].id = id

\* C1: a debt with currentAmount > 0 is unpayable exactly when
\* minPayment <= 0 or minPayment <= currentAmount * (annualRate / 100 / 12),
\* that is 1200 * minPayment <= currentAmount * annualRate, and has a finite
\* horizon otherwise.
C1_UnpayableIffInterestCoversPayment ==
    Rendered =>
        \A i \in Rows :
            LET e == payoffSummary[i]
            IN  e.currentAmount > 0 =>
                    IF \/ e.minPayment <= 0
                       \/ 1200 * e.minPayment <= e.currentAmount * OrZero(e.interestRate)
                    THEN e.payoffMonths = Infinity
                    ELSE e.payoffMonths.k = "fin"

\* C2: a debt with currentAmount <= 0 has the horizon 0, whatever its
\* minPayment and interest rate.
C2_PaidOffIsZero ==
    Rendered =>
        \A i \in Rows :
            payoffSummary[i].currentAmount <= 0 =>
                payoffSummary[i].payoffMonths = Zero

C2_Witness ==
    /\ Rendered
    /\ \E i \in Rows :
          /\ payoffSummary[i].currentAmount = 0
          /\ payoffSummary[i].minPayment = 0
          /\ payoffSummary[i].payoffMonths = Zero
    /\ \E i \in Rows :
          /\ payoffSummary[i].currentAmount < 0
          /\ payoffSummary[i].interestRate = Some(45)

\* |x - y|
BigDistance(x, y) == IF BigCmp(x, y) >= 0 THEN BigSub(x, y) ELSE BigSub(y, x)

\* The number M * 2^E, M of 53 bits and E below 0, is the double of the
\* quotient p / a: none is nearer, |p - M * 2^E * a| <= 2^(E-1) * a.
NearestToQuotient(M, E, p, a) ==
    BigCmp(BigDistance(BigShl(BigOfInt(p), 1 - E), BigMulSmall(BigShl(M, 1), a)),
           BigOfInt(a)) <= 0

\* The double months is the quotient p / a of two whole numbers above 0
IsQuotient(months, p, a) ==
    /\ months.k = "fin"
    /\ months.s = 1
    /\ months.m # <<>>
    /\ NearestToQuotient(BigShl(months.m, 53 - BigBitLen(months.m)),
                         months.e - (53 - BigBitLen(months.m)), p, a)

\* C3: with currentAmount > 0, minPayment > 0 and an interest rate of 0 or
\* none, the horizon is the quotient currentAmount / minPayment: the number
\* (a double) nearest to it, and the quotient itself where that is a double.
C3_LinearPayoff ==
    Rendered =>
        \A i \in Rows :
            LET e == payoffSummary[i]
            IN  /\ e.currentAmount > 0
                /\ e.minPayment > 0
                /\ e.interestRate \in {undefined, Some(0)}
                => IsQuotient(e.payoffMonths, e.currentAmount, e.minPayment)

C3_Witness ==
    /\ Rendered
    /\ \E i \in Rows :
          /\ payoffSummary[i].currentAmount = 10000
          /\ payoffSummary[i].minPayment = 3000
          /\ payoffSummary[i].interestRate = Some(0)
          /\ payoffSummary[i].payoffMonths     \* 3.3333333333333335
                = [k |-> "fin", s |-> 1, m |-> <<683, 682, 682, 682, 682, 6>>, e |-> 0 - 51]
    /\ \E i \in Rows :
          /\ payoffSummary[i].currentAmount = 45000
          /\ payoffSummary[i].interestRate = undefined
          /\ payoffSummary[i].payoffMonths     \* 18
                = [k |-> "fin", s |-> 1, m |-> <<9>>, e |-> 1]

\* C4: no computed payoff horizon is the bare floating-point infinity, and
\* formatTime is never handed one.
C4_NoBareInfinity ==
    \A i \in Rows :
        /\ payoffSummary[i].payoffMonths # Infinity
        /\ Rendered => timeCells[i] # formatTime(Infinity)

\* C5: the ranked list is a permutation of data.debts, ascending by horizon,
\* every impossible payoff behind every finite one, and debts of equal
\* horizon in their order in data.debts.
C5_RankedStable ==
    Rendered =>
        /\ Len(payoffSummary) = Len(data.debts)
        /\ \A i \in 1..Len(data.debts) :
              \E j \in Rows :
                  /\ payoffSummary[j].id = data.debts[i].id
                  /\ payoffSummary[j].currentAmount = data.debts[i].currentAmount
                  /\ payoffSummary[j].minPayment = data.debts[i].minPayment
                  /\ payoffSummary[j].interestRate = data.debts[i].interestRate
        /\ \A i, j \in Rows :
              i < j =>
                  /\ ~HorizonLess(payoffSummary[j].payoffMonths,
                                  payoffSummary[i].payoffMonths)
                  /\ payoffSummary[i].payoffMonths = Infinity
                        => payoffSummary[j].payoffMonths = Infinity
                  /\ payoffSummary[i].payoffMonths = payoffSummary[j].payoffMonths
                        => PlaceOf(payoffSummary[i].id) < PlaceOf(payoffSummary[j].id)

\* Two impossible payoffs ahead of a finite one in data.debts, ranked.
C5_Witness ==
    /\ Rendered
    /\ Len(data.debts) = 3
    /\ data.debts[1].minPayment = 0 /\ data.debts[1].currentAmount = 10000
    /\ data.debts[2].minPayment = 50 /\ data.debts[2].interestRate = Some(60)
    /\ data.debts[3].currentAmount = 45000 /\ data.debts[3].interestRate = Some(45)
    /\ payoffSummary[1].id = IdOf(3)
    /\ payoffSummary[2].id = IdOf(1)
    /\ payoffSummary[3].id = IdOf(2)

(***************************************************************************)
(* Properties of the reminders (SpecRules, SpecRemind).                    *)
(***************************************************************************)
Evaluated == evalLog # <<>>

\* The rule and the debt or expense an item is about
RuleOf(note) == note.id[1]

RefOf(note) == IF Len(note.id) >= 2 THEN note.id[2] ELSE ""

\* The places in the notifications of the items of a debt / of an expense
DebtItems(debt) ==
    { i \in 1..Len(notifications) :
        /\ RuleOf(notifications[i]) \in {"debt-due-", "debt-upcoming-"}
        /\ RefOf(notifications[i]) = debt.id }

ExpenseItems(exp) ==
    { i \in 1..Len(notifications) :
        /\ RuleOf(notifications[i]) = "exp-"
        /\ RefOf(notifications[i]) = exp.id }

\* Two runs of the effect in a row on the same snapshot and the same date
SameDayRuns ==
    /\ Len(evalLog) = 2
    /\ evalLog[1].data = evalLog[2].data
    /\ evalLog[1].today.day = evalLog[2].today.day
    /\ evalLog[1].today.dow = evalLog[2].today.dow

\* What of an item the date and the snapshot alone decide
Projection(note) ==
    [rule |-> RuleOf(note), ref |-> RefOf(note), kind |-> note.type,
     title |-> note.title, message |-> note.message]

\* C6: the id of every item is a function of its rule and of the id of its
\* debt or expense: two runs on the same snapshot and date, at whatever
\* instants, give the same ids.
C6_IdsWithoutTimestamp ==
    SameDayRuns =>
        /\ Len(evalLog[1].notes) = Len(evalLog[2].notes)
        /\ \A i \in 1..Len(evalLog[1].notes) :
              evalLog[1].notes[i].id = evalLog[2].notes[i].id

\* C7: two runs on the same snapshot and the same date give the same items
\* in the same order as to rule, referenced id, kind, title and message,
\* whatever the instants of the runs and whatever the items before.
C7_SameDaySameItems ==
    SameDayRuns =>
        /\ Len(evalLog[1].notes) = Len(evalLog[2].notes)
        /\ Len(notifications) = Len(evalLog[2].notes)
        /\ \A i \in 1..Len(evalLog[1].notes) :
              /\ Projection(evalLog[1].notes[i]) = Projection(evalLog[2].notes[i])
              /\ Projection(notifications[i]) = Projection(evalLog[1].notes[i])

\* Two runs at different instants of a day on which an expense is due.
C7_Witness ==
    /\ SameDayRuns
    /\ evalLog[1].today.time # evalLog[2].today.time
    /\ \E i \in 1..Len(notifications) : RuleOf(notifications[i]) = "exp-"

\* C8: on day d a debt with a balance and a dueDay has exactly one item: the
\* warning of the due day when dueDay = d, the notice of the days left when
\* dueDay - d is 1, 2 or 3; every other debt on every other day has none.
C8_DebtDueWindow ==
    Evaluated =>
        \A k \in 1..Len(data.debts) :
            LET debt  == data.debts[k]
                d     == today.day
                items == DebtItems(debt)
                live  == debt.currentAmount > 0 /\ IsDefined(debt.dueDay)
            IN  IF live /\ debt.dueDay[1] = d
                THEN /\ Cardinality(items) = 1
                     /\ \A i \in items :
                           /\ notifications[i].id = <<"debt-due-", debt.id>>
                           /\ notifications[i].type = "warning"
                           /\ notifications[i].message[3] = " vence hoy. Evita recargos."
                ELSE IF live /\ debt.dueDay[1] - d \in 1..3
                THEN /\ Cardinality(items) = 1
                     /\ \A i \in items :
                           /\ notifications[i].id = <<"debt-upcoming-", debt.id>>
                           /\ notifications[i].type = "info"
                           /\ notifications[i].message[3] = " es en "
                           /\ notifications[i].message[4] = ToString(debt.dueDay[1] - d)
                ELSE items = {}

\* The 12th: of two debts due on the 15th only the one with a balance is
\* announced, three days ahead.
C8_Witness ==
    /\ Evaluated
    /\ today.day = 12
    /\ Len(data.debts) = 2
    /\ data.debts[1].currentAmount = 0 /\ data.debts[1].dueDay = Some(15)
    /\ data.debts[2].currentAmount > 0 /\ data.debts[2].dueDay = Some(15)
    /\ Len(notifications) = 1
    /\ notifications[1].id = <<"debt-upcoming-", IdOf(2)>>
    /\ notifications[1].message[4] = "3"

\* C9 as stated: a Bi-weekly expense has an item on day d exactly when its
\* dueDay is d or d + 15.
C9_FiresWhenDueDayIsDayPlus15 ==
    Evaluated =>
        \A k \in 1..Len(data.expenses) :
            LET exp == data.expenses[k]
            IN  exp.frequency = Some("Bi-weekly") =>
                    (ExpenseItems(exp) # {}
                        <=> /\ IsDefined(exp.dueDay)
                            /\ \/ exp.dueDay[1] = today.day
                               \/ exp.dueDay[1] = today.day + 15)

\* C9: a Bi-weekly expense has an item on day d exactly when its dueDay is
\* set and not zero and d is dueDay or dueDay + 15.
C9_FiresWhenDayIsDueDayPlus15 ==
    Evaluated =>
        \A k \in 1..Len(data.expenses) :
            LET exp == data.expenses[k]
            IN  exp.frequency = Some("Bi-weekly") =>
                    (ExpenseItems(exp) # {}
                        <=> /\ IsDefined(exp.dueDay)
                            /\ exp.dueDay[1] # 0
                            /\ \/ today.day = exp.dueDay[1]
                               \/ today.day = exp.dueDay[1] + 15)

\* The 30th: the expense of the 15th is due again.
C9_Witness ==
    /\ Evaluated
    /\ today.day = 30
    /\ Len(data.expenses) = 1
    /\ data.expenses[1].frequency = Some("Bi-weekly")
    /\ data.expenses[1].dueDay = Some(15)
    /\ Len(notifications) = 1
    /\ notifications[1].message[1] = "Quincenal: Hoy corresponde el gasto de "

\* The days of the month on which the rules, on the weekday of today, give
\* the expense an item
FiringDays(exp) ==
    { d \in DaysOfMonth : ExpenseNotes(exp, d, today.dow, today.time) # <<>> }

\* C10: the days of a month on which a Bi-weekly expense with dueDay k is
\* announced are k and k + 15, the second only when it is a day of the
\* month, and on the day of the run the item is there accordingly.
C10_TwoAnchors ==
    Evaluated =>
        \A j \in 1..Len(data.expenses) :
            LET exp == data.expenses[j]
            IN  exp.frequency = Some("Bi-weekly") /\ Truthy(exp.dueDay) =>
                    LET k    == exp.dueDay[1]
                        days == FiringDays(exp)
                    IN  /\ days = IF k + 15 <= 31 THEN {k, k + 15} ELSE {k}
                        /\ Cardinality(ExpenseItems(exp))
                              = IF today.day \in days THEN 1 ELSE 0

\* The 31st: the expense of the 16th has its second anchor; the one of the
\* 20th has none.
C10_Witness ==
    /\ Evaluated
    /\ today.day = 31
    /\ Len(data.expenses) = 2
    /\ data.expenses[1].frequency = Some("Bi-weekly")
    /\ data.expenses[1].dueDay = Some(16)
    /\ data.expenses[2].frequency = Some("Bi-weekly")
    /\ data.expenses[2].dueDay = Some(20)
    /\ Cardinality(FiringDays(data.expenses[1])) = 2
    /\ Cardinality(FiringDays(data.expenses[2])) = 1
    /\ Len(notifications) = 1
    /\ RefOf(notifications[1]) = IdOf(1)

\* C11: a Weekly expense with dueDay w, Sunday's 0 included, has its item
\* exactly when the weekday of the run is w, and the same item on every
\* day of the month.
C11_WeeklyByWeekday ==
    Evaluated =>
        \A j \in 1..Len(data.expenses) :
            LET exp == data.expenses[j]
            IN  exp.frequency = Some("Weekly") /\ IsDefined(exp.dueDay) =>
                    /\ Cardinality(ExpenseItems(exp))
                          = IF today.dow = exp.dueDay[1] THEN 1 ELSE 0
                    /\ \A i \in ExpenseItems(exp) :
                          notifications[i].message[1] = "Semanal: Hoy toca el gasto de "
                    /\ \A d \in DaysOfMonth :
                          ExpenseNotes(exp, d, today.dow, today.time)
                              = ExpenseNotes(exp, today.day, today.dow, today.time)

\* A Sunday late in the month: the expense of weekday 0 is announced.
C11_Witness ==
    /\ Evaluated
    /\ today.dow = 0
    /\ today.day = 29
    /\ Len(data.debts) = 0
    /\ Len(data.expenses) = 1
    /\ data.expenses[1].frequency = Some("Weekly")
    /\ data.expenses[1].dueDay = Some(0)
    /\ Len(notifications) = 1
    /\ notifications[1].title = "Gasto Fijo"

\* The places in the notifications of the check-in item
CheckInItems ==
    { i \in 1..Len(notifications) : notifications[i].id = <<"monthly-checkin">> }

\* C12: the run gives the check-in item exactly on the days up to the 3rd,
\* and every debt and every expense whose rule matches has its item beside
\* it, whatever else matched; nothing else is in the list.
C12_RulesIndependent ==
    Evaluated =>
        /\ Cardinality(CheckInItems) = IF today.day <= 3 THEN 1 ELSE 0
        /\ \A i \in CheckInItems : notifications[i].type = "info"
        /\ \A k \in 1..Len(data.debts) :
              Cardinality(DebtItems(data.debts[k]))
                  = Len(DebtNotes(data.debts[k], today.day))
        /\ \A j \in 1..Len(data.expenses) :
              Cardinality(ExpenseItems(data.expenses[j]))
                  = Len(ExpenseNotes(data.expenses[j], today.day, today.dow, today.time))
        /\ \A i \in 1..Len(notifications) :
              \/ i \in CheckInItems
              \/ \E k \in 1..Len(data.debts) : i \in DebtItems(data.debts[k])
              \/ \E j \in 1..Len(data.expenses) : i \in ExpenseItems(data.expenses[j])

\* Monday the 2nd: the check-in, the debt due today and the weekly expense
\* are all three in the list.
C12_Witness ==
    /\ Evaluated
    /\ today.day = 2
    /\ today.dow = 1
    /\ Len(data.debts) = 1 /\ data.debts[1].dueDay = Some(2)
    /\ data.debts[1].currentAmount > 0
    /\ Len(data.expenses) = 1
    /\ data.expenses[1].frequency = Some("Weekly")
    /\ data.expenses[1].dueDay = Some(1)
    /\ Len(notifications) = 3
    /\ notifications[1].id = <<"monthly-checkin">>
    /\ RuleOf(notifications[2]) = "debt-due-"
    /\ RuleOf(notifications[3]) = "exp-"

(***************************************************************************)
(* The App session: the snapshot state, its effects, its handlers and the  *)
(* platform around it.  History entries are objects on the heap and a      *)
(* snapshot holds references to them; every other part of a snapshot is    *)
(* only ever copied, and is held by value.                                 *)
(***************************************************************************)
MaxOps == 2

StorageKey == "finances_er_v1"

\* INITIAL_STATE.history, the objects of the module
InitialHeap ==
    << [date |-> <<"2023-10">>, totalDebt |-> 865000],
       [date |-> <<"2023-11">>, totalDebt |-> 855000],
       [date |-> <<"2023-12">>, totalDebt |-> 840000],
       [date |-> <<"2024-01">>, totalDebt |-> 825000],
       [date |-> <<"2024-02">>, totalDebt |-> 807000] >>

INITIAL_STATE ==
    [debts |->
        << [id |-> "1", name |-> "BBVA", initialAmount |-> 50000,
            currentAmount |-> 45000, minPayment |-> 2500, color |-> "#1e40af",
            dueDay |-> Some(15), interestRate |-> Some(45)],
           [id |-> "2", name |-> "Plata Card", initialAmount |-> 15000,
            currentAmount |-> 12000, minPayment |-> 1000, color |-> "#ec4899",
            dueDay |-> Some(5), interestRate |-> Some(65)],
           [id |-> "3", name |-> "Fovissste", initialAmount |-> 800000,
            currentAmount |-> 750000, minPayment |-> 5000, color |-> "#f59e0b",
            dueDay |-> Some(28), interestRate |-> Some(11)] >>,
     expenses |->
        << [id |-> "1", name |-> "Luz", amount |-> 500, category |-> "Services",
            frequency |-> Some("Monthly"), dueDay |-> Some(10)],
           [id |-> "2", name |-> "Internet", amount |-> 600, category |-> "Services",
            frequency |-> Some("Monthly"), dueDay |-> Some(5)],
           [id |-> "3", name |-> "Comida Semanal", amount |-> 1000, category |-> "Food",
            frequency |-> Some("Weekly"), dueDay |-> Some(1)],
           [id |-> "4", name |-> "Niñera", amount |-> 1500, category |-> "Nanny",
            frequency |-> Some("Bi-weekly"), dueDay |-> Some(15)] >>,
     incomes |->
        << [id |-> "1", source |-> "Edna", amount |-> 18000],
           [id |-> "2", source |-> "Ronaldo", amount |-> 20000] >>,
     payments |-> <<>>,
     history |-> <<1, 2, 3, 4, 5>>]

\* The value of `data` before the component has rendered
NoSnapshot ==
    [debts |-> <<>>, expenses |-> <<>>, incomes |-> <<>>, payments |-> <<>>,
     history |-> <<>>]

\* generateId(): the n-th random id
generateId(n) == "g" \o ToString(n)

\* debts.reduce((acc, d) => acc + d.currentAmount, 0)
RECURSIVE TotalDebt(_)
TotalDebt(debts) ==
    IF debts = <<>> THEN 0
    ELSE TotalDebt(SubSeq(debts, 1, Len(debts) - 1)) + debts[Len(debts)].currentAmount

Max(a, b) == IF a >= b THEN a ELSE b

\* the index of the first debt of that id
FindDebt(debts, debtId) ==
    CHOOSE i \in 1..Len(debts) :
        /\ debts[i].id = debtId
        /\ \A k \in 1..(i - 1) : debts[k].id # debtId

\* data.debts.find(d => d.id === debtId)?.name || 'Deuda'
DebtNameOf(debts, debtId) ==
    IF \A i \in 1..Len(debts) : debts[i].id # debtId THEN "Deuda"
    ELSE IF debts[FindDebt(debts, debtId)].name = "" THEN "Deuda"
    ELSE debts[FindDebt(debts, debtId)].name

\* date.substring(0, 7) of an ISO date <<"YYYY-MM", "-DD">>
MonthPrefix(date) == SubSeq(date, 1, 1)

(***************************************************************************)
(* JSON.  A text is either the serialisation of a snapshot, in which the   *)
(* history entries are written out, or a text JSON.parse rejects.          *)
(***************************************************************************)
\* JSON.stringify(snapshot), the heap being h
Stringify(snapshot, h) ==
    [text  |-> "json",
     value |-> [debts    |-> snapshot.debts,
                expenses |-> snapshot.expenses,
                incomes  |-> snapshot.incomes,
                payments |-> snapshot.payments,
                history  |-> [i \in 1..Len(snapshot.history) |-> h[snapshot.history[i]]]]]

Malformed == [text |-> "{\"debts\":["]

EmptyText == [text |-> ""]

\* whether JSON.parse(text) returns rather than throws
Parses(text) == text.text = "json"

\* JSON.parse(text): the snapshot, its history entries being new objects
\* placed on the heap h
ParsedSnapshot(text, h) ==
    [debts    |-> text.value.debts,
     expenses |-> text.value.expenses,
     incomes  |-> text.value.incomes,
     payments |-> text.value.payments,
     history  |-> [i \in 1..Len(text.value.history) |-> Len(h) + i]]

ParsedHeap(text, h) == h \o text.value.history

\* a string is truthy unless it is empty
TruthyText(o) == IsDefined(o) /\ o[1].text # ""

\* What a reader of the snapshot sees: its content, references followed
Seen(snapshot, h) == Stringify(snapshot, h).value

\* The snapshot another session has saved
OtherSession ==
    [text  |-> "json",
     value |-> [debts    |-> << [INITIAL_STATE.debts[1] EXCEPT !.currentAmount = 40000] >>,
                expenses |-> <<>>,
                incomes  |-> <<>>,
                payments |-> << [id |-> "zk3f9q0aa", debtId |-> "1", amount |-> 5000,
                                 date |-> <<"2024-02", "-14">>,
                                 recordedBy |-> "Ronaldo"] >>,
                history  |-> << [date |-> <<"2024-02">>, totalDebt |-> 40000] >>]]

\* The values another writer leaves under the key: removed, empty, not
\* JSON, a snapshot
ForeignValues == { undefined, Some(EmptyText), Some(Malformed), Some(OtherSession) }

(***************************************************************************)
(* The platform.                                                           *)
(***************************************************************************)
\* new Notification(title, {body}): shown when the permission is granted
NewNotification(title, body) ==
    IF permission = "granted"
    THEN Append(alerts, [title |-> title, body |-> body])
    ELSE alerts

\* sendSystemNotification(title, body): the alerts after the call
sendSystemNotification(title, body) ==
    IF pushEnabled /\ visibility = "hidden"
    THEN NewNotification(title, body)
    ELSE alerts

\* The promise of requestPermission resolves: with the answer of the user
\* to the prompt, or with 'denied' at once when the permission is denied.
PermissionAnswered(answer) ==
    /\ requesting
    /\ permission = "denied" => answer = "denied"
    /\ requesting' = FALSE
    /\ permission' = answer
    /\ pushEnabled' = IF phase = "mounted" THEN answer = "granted" ELSE pushEnabled
    /\ UNCHANGED <<data, payoffSummary, timeCells, view, today, notifications, evalLog>>
    /\ UNCHANGED <<phase, pending, currentUser, listening, timers, interval,
                   heap, ops, lastOp>>
    /\ UNCHANGED <<visibility, alerts, storage, events, utcDate, uncaught>>
    /\ UNCHANGED sessions

\* The permission is changed in the settings of the browser.
PermissionChanged(p) ==
    /\ ~requesting
    /\ phase = "mounted"
    /\ ops.n < MaxOps
    /\ ops' = [ops EXCEPT !.n = @ + 1]
    /\ p # permission
    /\ permission' = p
    /\ UNCHANGED <<data, payoffSummary, timeCells, view, today, notifications, evalLog>>
    /\ UNCHANGED <<phase, pending, currentUser, pushEnabled, requesting,
                   listening, timers, interval, heap, lastOp>>
    /\ UNCHANGED <<visibility, alerts, storage, events, utcDate, uncaught>>
    /\ UNCHANGED sessions

\* The page is hidden or shown.
VisibilityChange ==
    /\ phase = "mounted"
    /\ ops.n < MaxOps
    /\ ops' = [ops EXCEPT !.n = @ + 1]
    /\ visibility' = IF visibility = "hidden" THEN "visible" ELSE "hidden"
    /\ UNCHANGED <<data, payoffSummary, timeCells, view, today, notifications, evalLog>>
    /\ UNCHANGED <<phase, pending, currentUser, pushEnabled, requesting,
                   listening, timers, interval, heap, lastOp>>
    /\ UNCHANGED <<permission, alerts, storage, events, utcDate, uncaught>>
    /\ UNCHANGED sessions

\* The clock passes from Thursday 15 February 2024 to Friday 1 March.
MonthTurns ==
    /\ phase = "mounted"
    /\ ops.n < MaxOps
    /\ ops' = [ops EXCEPT !.n = @ + 1]
    /\ utcDate = <<"2024-02", "-15">>
    /\ utcDate' = <<"2024-03", "-01">>
    /\ today' = [day |-> 1, dow |-> 5, time |-> today.time + 1]
    /\ UNCHANGED <<data, payoffSummary, timeCells, view, notifications, evalLog>>
    /\ UNCHANGED <<phase, pending, currentUser, pushEnabled, requesting,
                   listening, timers, interval, heap, lastOp>>
    /\ UNCHANGED <<permission, visibility, alerts, storage, events, uncaught>>
    /\ UNCHANGED sessions

\* Another writer sets or removes the value under the key; the session is
\* sent a 'storage' event.
ForeignWrite(v) ==
    /\ phase = "mounted"
    /\ ops.n < MaxOps
    /\ v # storage
    /\ storage' = v
    /\ events' = Append(events, [key |-> StorageKey, newValue |-> v])
    /\ ops' = [ops EXCEPT !.n = @ + 1]
    /\ UNCHANGED <<data, payoffSummary, timeCells, view, today, notifications, evalLog>>
    /\ UNCHANGED <<phase, pending, currentUser, pushEnabled, requesting,
                   listening, timers, interval, heap, lastOp>>
    /\ UNCHANGED <<permission, visibility, alerts, utcDate, uncaught>>
    /\ UNCHANGED sessions

\* Another writer sets a value under another key.
ForeignWriteOtherKey ==
    /\ phase = "mounted"
    /\ ops.n < MaxOps
    /\ events' = Append(events, [key |-> "theme", newValue |-> Some(OtherSession)])
    /\ ops' = [ops EXCEPT !.n = @ + 1]
    /\ UNCHANGED <<data, payoffSummary, timeCells, view, today, notifications, evalLog>>
    /\ UNCHANGED <<phase, pending, currentUser, pushEnabled, requesting,
                   listening, timers, interval, heap, lastOp>>
    /\ UNCHANGED <<permission, visibility, alerts, storage, utcDate, uncaught>>
    /\ UNCHANGED sessions

(***************************************************************************)
(* The App component.                                                      *)
(***************************************************************************)
\* The first render: useState reads the saved text and parses it.
Mount ==
    /\ phase = "init"
    /\ IF TruthyText(storage)
       THEN IF Parses(storage[1])
            THEN /\ data' = ParsedSnapshot(storage[1], heap)
                 /\ heap' = ParsedHeap(storage[1], heap)
                 /\ phase' = "mounted"
                 /\ pending' = "mount"
                 /\ uncaught' = uncaught
            ELSE /\ phase' = "crashed"
                 /\ uncaught' = Append(uncaught, "SyntaxError")
                 /\ UNCHANGED <<data, heap, pending>>
       ELSE /\ data' = INITIAL_STATE
            /\ phase' = "mounted"
            /\ pending' = "mount"
            /\ UNCHANGED <<heap, uncaught>>
    /\ UNCHANGED <<payoffSummary, timeCells, view, today, notifications, evalLog>>
    /\ UNCHANGED <<currentUser, pushEnabled, requesting, listening, timers,
                   interval, ops, lastOp>>
    /\ UNCHANGED <<permission, visibility, alerts, storage, events, utcDate>>
    /\ UNCHANGED sessions

\* The effects keeping every interval they started.
FlushEffectsKeepingIntervals ==
    /\ phase = "mounted"
    /\ pending # "none"
    /\ pending' = "none"
    /\ storage' = Some(Stringify(data, heap))
    /\ listening' = TRUE
    /\ requesting' = IF pending = "mount" THEN permission # "granted" ELSE requesting
    /\ pushEnabled' = IF pending = "mount" /\ permission = "granted" THEN TRUE
                      ELSE pushEnabled
    /\ timers' = timers \cup { [id |-> interval + 1, data |-> data] }
    /\ interval' = interval + 1
    /\ notifications' = NotesOf(data, today)
    /\ evalLog' = << [today |-> today, data |-> data, notes |-> NotesOf(data, today)] >>
    /\ UNCHANGED <<data, payoffSummary, timeCells, view, today>>
    /\ UNCHANGED <<phase, currentUser, heap, ops, lastOp>>
    /\ UNCHANGED <<permission, visibility, alerts, events, utcDate, uncaught>>
    /\ UNCHANGED sessions

\* The effects recomputing the reminders on mount only.
FlushEffectsOnMountOnly ==
    /\ phase = "mounted"
    /\ pending # "none"
    /\ pending' = "none"
    /\ storage' = Some(Stringify(data, heap))
    /\ listening' = TRUE
    /\ requesting' = IF pending = "mount" THEN permission # "granted" ELSE requesting
    /\ pushEnabled' = IF pending = "mount" /\ permission = "granted" THEN TRUE
                      ELSE pushEnabled
    /\ IF pending = "mount"
       THEN /\ timers' = { [id |-> interval + 1, data |-> data] }
            /\ interval' = interval + 1
            /\ notifications' = NotesOf(data, today)
            /\ evalLog' = << [today |-> today, data |-> data,
                              notes |-> NotesOf(data, today)] >>
       ELSE UNCHANGED <<timers, interval, notifications, evalLog>>
    /\ UNCHANGED <<data, payoffSummary, timeCells, view, today>>
    /\ UNCHANGED <<phase, currentUser, heap, ops, lastOp>>
    /\ UNCHANGED <<permission, visibility, alerts, events, utcDate, uncaught>>
    /\ UNCHANGED sessions

\* The passive effects of a render, in their order: the snapshot is saved;
\* on mount the 'storage' listener is registered and the permission is read
\* or asked for; the interval of the last run is cleared, the reminders are
\* computed and a new interval is set.
FlushEffects ==
    /\ phase = "mounted"
    /\ pending # "none"
    /\ pending' = "none"
    /\ storage' = Some(Stringify(data, heap))
    /\ listening' = TRUE
    /\ requesting' = IF pending = "mount" THEN permission # "granted" ELSE requesting
    /\ pushEnabled' = IF pending = "mount" /\ permission = "granted" THEN TRUE
                      ELSE pushEnabled
    /\ timers' = { t \in timers : t.id # interval }
                     \cup { [id |-> interval + 1, data |-> data] }
    /\ interval' = interval + 1
    /\ notifications' = NotesOf(data, today)
    /\ evalLog' = << [today |-> today, data |-> data, notes |-> NotesOf(data, today)] >>
    /\ UNCHANGED <<data, payoffSummary, timeCells, view, today>>
    /\ UNCHANGED <<phase, currentUser, heap, ops, lastOp>>
    /\ UNCHANGED <<permission, visibility, alerts, events, utcDate, uncaught>>
    /\ UNCHANGED sessions

\* An interval fires: calculateNotifications of its closure runs.
IntervalTick ==
    \E t \in timers :
        /\ notifications' = NotesOf(t.data, today)
        /\ evalLog' = << [today |-> today, data |-> t.data,
                          notes |-> NotesOf(t.data, today)] >>
        /\ UNCHANGED <<data, payoffSummary, timeCells, view, today>>
        /\ UNCHANGED appVars
        /\ UNCHANGED platformVars
        /\ UNCHANGED sessions

\* The component is unmounted: the cleanups of its effects run.
Unmount ==
    /\ phase = "mounted"
    /\ pending = "none"
    /\ phase' = "unmounted"
    /\ listening' = FALSE
    /\ timers' = { t \in timers : t.id # interval }
    /\ UNCHANGED <<data, payoffSummary, timeCells, view, today, notifications, evalLog>>
    /\ UNCHANGED <<pending, currentUser, pushEnabled, requesting, interval,
                   heap, ops, lastOp>>
    /\ UNCHANGED platformVars
    /\ UNCHANGED sessions

\* What a step that sets the snapshot leaves behind
OpRecord(name, arg) ==
    [name |-> name, arg |-> arg, prev |-> data, prevSeen |-> Seen(data, heap),
     alertsBefore |-> Len(alerts), permission |-> permission,
     visibility |-> visibility, pushEnabled |-> pushEnabled,
     currentUser |-> currentUser]

\* A handler runs: setData(prev => next) is rendered, `ids` ids were drawn.
Handled(name, arg, next, nextHeap, nextAlerts, ids) ==
    /\ phase = "mounted"
    /\ pending = "none"
    /\ ops.n < MaxOps
    /\ data' = next
    /\ heap' = nextHeap
    /\ alerts' = nextAlerts
    /\ pending' = "data"
    /\ ops' = [n |-> ops.n + 1, ids |-> ops.ids + ids]
    /\ lastOp' = OpRecord(name, arg)
    /\ UNCHANGED <<payoffSummary, timeCells, view, today, notifications, evalLog>>
    /\ UNCHANGED <<phase, currentUser, pushEnabled, requesting, listening,
                   timers, interval>>
    /\ UNCHANGED <<permission, visibility, storage, events, utcDate, uncaught>>
    /\ UNCHANGED sessions

\* The select of the header: onChange={(e) => setCurrentUser(e.target.value)}.
\* No effect depends on currentUser: the render leaves no effect to run.
setCurrentUser(user) ==
    /\ phase = "mounted"
    /\ pending = "none"
    /\ ops.n < MaxOps
    /\ currentUser' = user
    /\ ops' = [ops EXCEPT !.n = @ + 1]
    /\ lastOp' = OpRecord("setCurrentUser", user)
    /\ UNCHANGED <<data, payoffSummary, timeCells, view, today, notifications, evalLog>>
    /\ UNCHANGED <<phase, pending, pushEnabled, requesting, listening, timers,
                   interval, heap>>
    /\ UNCHANGED platformVars
    /\ UNCHANGED sessions

\* handleAddDebt adding the debt only when the alert is shown.
handleAddDebtWhenAlerted(debt) ==
    Handled("addDebt", debt,
            IF sendSystemNotification("Nueva Deuda", <<>>) # alerts
            THEN [data EXCEPT !.debts =
                     Append(@, [id |-> generateId(ops.ids + 1), name |-> debt.name,
                                initialAmount |-> debt.initialAmount,
                                currentAmount |-> debt.currentAmount,
                                minPayment |-> debt.minPayment, color |-> debt.color,
                                dueDay |-> debt.dueDay,
                                interestRate |-> debt.interestRate])]
            ELSE data,
            heap,
            sendSystemNotification("Nueva Deuda",
                <<currentUser, " agregó la deuda \"", debt.name, "\"">>),
            1)

handleAddDebt(debt) ==
    Handled("addDebt", debt,
            [data EXCEPT !.debts =
                Append(@, [id |-> generateId(ops.ids + 1), name |-> debt.name,
                           initialAmount |-> debt.initialAmount,
                           currentAmount |-> debt.currentAmount,
                           minPayment |-> debt.minPayment, color |-> debt.color,
                           dueDay |-> debt.dueDay,
                           interestRate |-> debt.interestRate])],
            heap,
            sendSystemNotification("Nueva Deuda",
                <<currentUser, " agregó la deuda \"", debt.name, "\"">>),
            1)

handleUpdateDebt(updatedDebt) ==
    Handled("updateDebt", updatedDebt,
            [data EXCEPT !.debts =
                [i \in 1..Len(@) |-> IF @[i].id = updatedDebt.id THEN updatedDebt
                                     ELSE @[i]]],
            heap, alerts, 0)

\* handleDeleteDebt announcing the deletion.
handleDeleteDebtAlerting(id) ==
    Handled("deleteDebt", id,
            [data EXCEPT !.debts = SelectSeq(@, LAMBDA d : d.id # id)],
            heap, sendSystemNotification("Deuda Eliminada", <<currentUser>>), 0)

handleDeleteDebt(id) ==
    Handled("deleteDebt", id,
            [data EXCEPT !.debts = SelectSeq(@, LAMBDA d : d.id # id)],
            heap, alerts, 0)

\* UpdatedDebts subtracting the amount with no floor.
UpdatedDebtsUnclamped(debts, debtId, amount) ==
    [i \in 1..Len(debts) |->
        IF debts[i].id = debtId
        THEN [debts[i] EXCEPT !.currentAmount = @ - amount]
        ELSE debts[i]]

\* prev.debts.map(d => d.id === debtId
\*     ? {...d, currentAmount: Math.max(0, d.currentAmount - amount)} : d)
UpdatedDebts(debts, debtId, amount) ==
    [i \in 1..Len(debts) |->
        IF debts[i].id = debtId
        THEN [debts[i] EXCEPT !.currentAmount = Max(0, @ - amount)]
        ELSE debts[i]]

\* whether the last history entry carries the month of the date
SameMonthAsLast(history, h, date) ==
    /\ history # <<>>
    /\ h[history[Len(history)]].date = MonthPrefix(date)

\* The heap after the updater of handleMakePayment: the last entry is
\* written in place, or a new entry is made.
HeapAfterPayment(history, h, date, newTotalDebt) ==
    IF SameMonthAsLast(history, h, date)
    THEN [h EXCEPT ![history[Len(history)]].totalDebt = newTotalDebt]
    ELSE Append(h, [date |-> date, totalDebt |-> newTotalDebt])

\* newHistory, the copy of prev.history, after the updater
HistoryAfterPayment(history, h, date) ==
    IF SameMonthAsLast(history, h, date) THEN history
    ELSE Append(history, Len(h) + 1)

handleMakePayment(debtId, amount) ==
    Handled("makePayment", [debtId |-> debtId, amount |-> amount, date |-> utcDate],
            [data EXCEPT
                !.debts = UpdatedDebts(@, debtId, amount),
                !.payments = Append(@, [id |-> generateId(ops.ids + 1),
                                        debtId |-> debtId, amount |-> amount,
                                        date |-> utcDate, recordedBy |-> currentUser]),
                !.history = HistoryAfterPayment(@, heap, utcDate)],
            HeapAfterPayment(data.history, heap, utcDate,
                             TotalDebt(UpdatedDebts(data.debts, debtId, amount))),
            sendSystemNotification("Pago Registrado",
                <<currentUser, " pagó $", ToString(amount), " a ",
                  DebtNameOf(data.debts, debtId)>>),
            1)

handleAddIncome(income) ==
    Handled("addIncome", income,
            [data EXCEPT !.incomes =
                Append(@, [id |-> generateId(ops.ids + 1), source |-> income.source,
                           amount |-> income.amount])],
            heap, alerts, 1)

handleRemoveIncome(id) ==
    Handled("removeIncome", id,
            [data EXCEPT !.incomes = SelectSeq(@, LAMBDA i : i.id # id)],
            heap, alerts, 0)

handleAddExpense(expense) ==
    Handled("addExpense", expense,
            [data EXCEPT !.expenses =
                Append(@, [id |-> generateId(ops.ids + 1), name |-> expense.name,
                           amount |-> expense.amount, category |-> expense.category,
                           frequency |-> expense.frequency,
                           dueDay |-> expense.dueDay])],
            heap, alerts, 1)

handleRemoveExpense(id) ==
    Handled("removeExpense", id,
            [data EXCEPT !.expenses = SelectSeq(@, LAMBDA e : e.id # id)],
            heap, alerts, 0)

\* handleStorageChange merging the debts of the event into the local ones.
handleStorageChangeMerging(e) ==
    IF e.key = StorageKey /\ TruthyText(e.newValue)
    THEN IF Parses(e.newValue[1])
         THEN /\ data' = [ParsedSnapshot(e.newValue[1], heap) EXCEPT
                             !.debts = data.debts \o @]
              /\ heap' = ParsedHeap(e.newValue[1], heap)
              /\ pending' = "data"
              /\ lastOp' = OpRecord("storage", e)
              /\ uncaught' = uncaught
         ELSE /\ uncaught' = Append(uncaught, "SyntaxError")
              /\ lastOp' = OpRecord("storage", e)
              /\ UNCHANGED <<data, heap, pending>>
    ELSE /\ lastOp' = OpRecord("storage", e)
         /\ UNCHANGED <<data, heap, pending, uncaught>>

\* handleStorageChange(e): the listener of the 'storage' event
handleStorageChange(e) ==
    IF e.key = StorageKey /\ TruthyText(e.newValue)
    THEN IF Parses(e.newValue[1])
         THEN /\ data' = ParsedSnapshot(e.newValue[1], heap)
              /\ heap' = ParsedHeap(e.newValue[1], heap)
              /\ pending' = "data"
              /\ lastOp' = OpRecord("storage", e)
              /\ uncaught' = uncaught
         ELSE /\ uncaught' = Append(uncaught, "SyntaxError")
              /\ lastOp' = OpRecord("storage", e)
              /\ UNCHANGED <<data, heap, pending>>
    ELSE /\ lastOp' = OpRecord("storage", e)
         /\ UNCHANGED <<data, heap, pending, uncaught>>

\* The next 'storage' event is dispatched: to the listener when there is
\* one, to nobody otherwise.  The listener is registered by an effect of the
\* mount: an event dispatched before that effect has run is lost.  Where
\* the listener calls setData (the key is the key of the snapshot and the
\* new value parses), its render comes after the effects of the render
\* before it.
DispatchStorageEvent ==
    /\ events # <<>>
    /\ phase # "init"
    /\ (/\ listening
        /\ Head(events).key = StorageKey
        /\ TruthyText(Head(events).newValue)
        /\ Parses(Head(events).newValue[1])) => pending = "none"
    /\ events' = Tail(events)
    /\ IF listening
       THEN handleStorageChange(Head(events))
       ELSE UNCHANGED <<data, heap, pending, lastOp, uncaught>>
    /\ UNCHANGED <<payoffSummary, timeCells, view, today, notifications, evalLog>>
    /\ UNCHANGED <<phase, currentUser, pushEnabled, requesting, listening,
                   timers, interval, ops>>
    /\ UNCHANGED <<permission, visibility, alerts, storage, utcDate>>
    /\ UNCHANGED sessions

(***************************************************************************)
(* The inputs of a session and its behaviours.                             *)
(***************************************************************************)
NewDebts ==
    { [name |-> "Auto", initialAmount |-> 9000, currentAmount |-> 9000,
       minPayment |-> 300, color |-> "#3b82f6", dueDay |-> Some(15),
       interestRate |-> undefined] }

\* the first debt with another minimum payment
EditedDebts ==
    { [data.debts[i] EXCEPT !.minPayment = 3000] : i \in 1..Len(data.debts) \cap {1} }

PaymentAmounts == { 2500, 50000 }

NewIncomes == { [source |-> "Bono", amount |-> 1000] }

NewExpenses ==
    { [name |-> "Gym", amount |-> 400, category |-> "Other",
       frequency |-> Some("Weekly"), dueDay |-> Some(4)] }

InitApp ==
    /\ data = NoSnapshot
    /\ payoffSummary = <<>>
    /\ timeCells = <<>>
    /\ view = "app"
    /\ today = [day |-> 15, dow |-> 4, time |-> 0]
    /\ notifications = <<>>
    /\ evalLog = <<>>
    /\ phase = "init"
    /\ pending = "none"
    /\ currentUser = "Edna"
    /\ pushEnabled = FALSE
    /\ requesting = FALSE
    /\ listening = FALSE
    /\ timers = {}
    /\ interval = 0
    /\ heap = InitialHeap
    /\ ops = [n |-> 0, ids |-> 0]
    /\ lastOp = [name |-> "none"]
    /\ permission \in { "default", "granted", "denied" }
    /\ visibility \in { "visible", "hidden" }
    /\ alerts = <<>>
    /\ storage \in ForeignValues
    /\ events = <<>>
    /\ utcDate = <<"2024-02", "-15">>
    /\ uncaught = <<>>
    /\ sessions = <<>>

UserAction ==
    \/ \E debt \in NewDebts : handleAddDebt(debt)
    \/ \E debt \in EditedDebts : handleUpdateDebt(debt)
    \/ handleDeleteDebt("1")
    \/ \E amount \in PaymentAmounts : handleMakePayment("1", amount)
    \/ \E income \in NewIncomes : handleAddIncome(income)
    \/ handleRemoveIncome("1")
    \/ \E expense \in NewExpenses : handleAddExpense(expense)
    \/ handleRemoveExpense("1")
    \/ \E user \in { "Edna", "Ronaldo" } : setCurrentUser(user)

Platform ==
    \/ \E answer \in { "default", "granted", "denied" } : PermissionAnswered(answer)
    \/ \E p \in { "default", "granted", "denied" } : PermissionChanged(p)
    \/ VisibilityChange
    \/ MonthTurns
    \/ \E v \in ForeignValues : ForeignWrite(v)
    \/ ForeignWriteOtherKey

NextApp ==
    \/ Mount
    \/ FlushEffects
    \/ IntervalTick
    \/ Unmount
    \/ DispatchStorageEvent
    \/ UserAction
    \/ Platform

SpecApp == InitApp /\ [][NextApp]_vars

(***************************************************************************)
(* Properties of the session (SpecApp).                                    *)
(***************************************************************************)
\* the last step was a call of handleAddDebt or handleMakePayment
AlertingAction == lastOp.name \in { "addDebt", "makePayment" }

\* C13: an add-debt or record-payment action taken while the permission of
\* the platform is granted and the page is hidden shows exactly one alert.
C13_OneAlertWhenGrantedAndHidden ==
    (AlertingAction /\ lastOp.permission = "granted" /\ lastOp.visibility = "hidden")
        => Len(alerts) = lastOp.alertsBefore + 1

\* the last handler call was made without the permission or on a visible page
Suppressed ==
    AlertingAction /\ (lastOp.permission # "granted" \/ lastOp.visibility = "visible")

\* The snapshot is the one before the last call with the debt appended.
DebtAppended ==
    /\ Len(data.debts) = Len(lastOp.prev.debts) + 1
    /\ SubSeq(data.debts, 1, Len(lastOp.prev.debts)) = lastOp.prev.debts
    /\ data.debts[Len(data.debts)].name = lastOp.arg.name
    /\ data.debts[Len(data.debts)].currentAmount = lastOp.arg.currentAmount
    /\ data.debts[Len(data.debts)].minPayment = lastOp.arg.minPayment
    /\ data.debts[Len(data.debts)].dueDay = lastOp.arg.dueDay
    /\ data.expenses = lastOp.prev.expenses
    /\ data.incomes = lastOp.prev.incomes
    /\ data.payments = lastOp.prev.payments
    /\ Seen(data, heap).history = lastOp.prevSeen.history

\* The snapshot is the one before the last call with the balance of the
\* debt reduced, the payment logged and the total entered in the history.
PaymentApplied ==
    /\ Len(data.debts) = Len(lastOp.prev.debts)
    /\ \A i \in 1..Len(data.debts) :
          /\ data.debts[i].id = lastOp.prev.debts[i].id
          /\ data.debts[i].currentAmount =
                IF data.debts[i].id # lastOp.arg.debtId
                THEN lastOp.prev.debts[i].currentAmount
                ELSE IF lastOp.prev.debts[i].currentAmount > lastOp.arg.amount
                THEN lastOp.prev.debts[i].currentAmount - lastOp.arg.amount
                ELSE 0
    /\ Len(data.payments) = Len(lastOp.prev.payments) + 1
    /\ SubSeq(data.payments, 1, Len(lastOp.prev.payments)) = lastOp.prev.payments
    /\ data.payments[Len(data.payments)].debtId = lastOp.arg.debtId
    /\ data.payments[Len(data.payments)].amount = lastOp.arg.amount
    /\ data.payments[Len(data.payments)].date = lastOp.arg.date
    /\ data.history # <<>>
    /\ heap[data.history[Len(data.history)]].totalDebt = TotalDebt(data.debts)
    /\ data.expenses = lastOp.prev.expenses
    /\ data.incomes = lastOp.prev.incomes

\* C14: an add-debt or record-payment action taken without the permission
\* or on a visible page shows no alert, and the debt is appended, or the
\* balance reduced and the payment logged, all the same.
C14_SuppressionKeepsMutation ==
    Suppressed =>
        /\ Len(alerts) = lastOp.alertsBefore
        /\ lastOp.name = "addDebt" => DebtAppended
        /\ lastOp.name = "makePayment" => PaymentApplied

\* A payment recorded on a visible page by a session whose alerts are
\* enabled: no alert, and the balance of BBVA went from 45000 to 42500.
C14_Witness ==
    /\ lastOp.name = "makePayment"
    /\ lastOp.pushEnabled
    /\ lastOp.permission = "granted"
    /\ lastOp.visibility = "visible"
    /\ alerts = <<>>
    /\ lastOp.prev.debts # <<>>
    /\ lastOp.prev.debts[1].currentAmount = 45000
    /\ data.debts[1].currentAmount = 42500
    /\ Len(data.payments) = 1

\* C15: a step that shows an alert is a call of handleAddDebt or of
\* handleMakePayment; no run of the effects, no tick of the interval, no
\* 'storage' event and no other handler shows one.
C15_AlertsOnlyFromDebtAndPayment ==
    [][ alerts' # alerts =>
            /\ lastOp' # lastOp
            /\ lastOp'.name \in { "addDebt", "makePayment" }
            /\ Len(alerts') = Len(alerts) + 1
            /\ alerts'[Len(alerts')].title =
                  (IF lastOp'.name = "addDebt" THEN "Nueva Deuda" ELSE "Pago Registrado")
      ]_vars

\* A debt deleted on a hidden page by a session whose alerts are enabled,
\* and the reminders recomputed after it: no alert was shown.
C15_Witness ==
    /\ lastOp.name = "deleteDebt"
    /\ lastOp.pushEnabled
    /\ lastOp.permission = "granted"
    /\ lastOp.visibility = "hidden"
    /\ pending = "none"
    /\ evalLog # <<>>
    /\ evalLog[1].data = data
    /\ alerts = <<>>

\* the last step was one of the four debt handlers
DebtMutation ==
    lastOp.name \in { "addDebt", "updateDebt", "deleteDebt", "makePayment" }

\* C16: after add debt, edit debt, delete debt or record payment, whoever
\* holds the snapshot of before the call still sees in it, history entries
\* included, what it held before the call.
C16_PreviousSnapshotUntouched ==
    DebtMutation => Seen(lastOp.prev, heap) = lastOp.prevSeen

\* C17: a saved text that cannot be parsed, read at the first render or
\* carried by a 'storage' event, never takes the component down and never
\* leaves its SyntaxError uncaught.
C17_ParseFailureContained ==
    /\ phase # "crashed"
    /\ uncaught = <<>>

\* C18: at most one interval is active, the one set by the last run of the
\* effect; none is active unless the component is mounted, and once it is
\* unmounted the reminders are not computed again.
C18_OneIntervalAtMost ==
    /\ [](/\ Cardinality(timers) <= 1
          /\ \A t \in timers : t.id = interval
          /\ phase # "mounted" => timers = {})
    /\ [][ phase = "unmounted" =>
               /\ notifications' = notifications
               /\ evalLog' = evalLog
               /\ timers' = {} ]_vars

\* The component was unmounted after the effect had run twice, on mount and
\* after a change of the snapshot: no interval is left.
C18_Witness ==
    /\ phase = "unmounted"
    /\ interval = 2
    /\ lastOp.name # "none"
    /\ timers = {}

\* C19: after the listener has handled a 'storage' event for the key with a
\* non-empty snapshot text the local snapshot is the snapshot of the event
\* and nothing else,
\* whatever was edited locally before; after an event for another key, or
\* with no or an empty new value, the local snapshot is the one of before.
C19_EventReplacesSnapshot ==
    lastOp.name = "storage" =>
        IF lastOp.arg.key = StorageKey /\ TruthyText(lastOp.arg.newValue)
        THEN Parses(lastOp.arg.newValue[1]) =>
                 Seen(data, heap) = lastOp.arg.newValue[1].value
        ELSE /\ data = lastOp.prev
             /\ Seen(data, heap) = lastOp.prevSeen

\* A debt was added locally, then the event of another session's write was
\* dispatched: the snapshot is the other session's and the debt is gone.
C19_Witness ==
    /\ lastOp.name = "storage"
    /\ lastOp.arg.key = StorageKey
    /\ lastOp.arg.newValue = Some(OtherSession)
    /\ \E i \in 1..Len(lastOp.prev.debts) : lastOp.prev.debts[i].name = "Auto"
    /\ \A i \in 1..Len(data.debts) : data.debts[i].name # "Auto"
    /\ Len(data.debts) = 1
    /\ Len(data.payments) = 1

\* The session as far as its reminders go: the page stays visible and the
\* permission stays as it was found; React runs the passive effects of
\* every render it has committed.
InitSync ==
    /\ InitApp
    /\ permission = "granted"
    /\ visibility = "visible"

NextSync ==
    \/ Mount
    \/ FlushEffects
    \/ IntervalTick
    \/ Unmount
    \/ DispatchStorageEvent
    \/ UserAction
    \/ MonthTurns
    \/ \E v \in ForeignValues : ForeignWrite(v)
    \/ ForeignWriteOtherKey

SpecSync == InitSync /\ [][NextSync]_vars /\ WF_vars(FlushEffects)

\* C20: every change of the snapshot is followed by a run of the effect,
\* and once no run is pending the notifications are the reminders of the
\* current snapshot, computed by the effect or by a tick of the one
\* interval, whose closure holds the current snapshot.
C20_RemindersFollowSnapshot ==
    /\ [](phase = "mounted" /\ pending = "none" =>
              /\ evalLog # <<>>
              /\ evalLog[1].data = data
              /\ notifications = NotesOf(data, evalLog[1].today)
              /\ timers # {}
              /\ \A t \in timers : t.data = data)
    /\ (pending # "none") ~> (pending = "none")

\* A payment was recorded, the month turned, and a tick of the interval
\* computed the reminders of 1 March from the snapshot with the payment.
C20_Witness ==
    /\ phase = "mounted"
    /\ pending = "none"
    /\ lastOp.name = "makePayment"
    /\ today.day = 1
    /\ evalLog # <<>>
    /\ evalLog[1].today = today
    /\ evalLog[1].data = data
    /\ Len(data.payments) = 1
    /\ notifications # <<>>
    /\ notifications[1].id = <<"monthly-checkin">>

\* The balance a payment leaves: what was owed less the amount, 0 at least
BalanceAfter(balance, amount) ==
    IF balance - amount < 0 THEN 0 ELSE balance - amount

\* C21: a recorded payment of x against debt d puts max(0, currentAmount - x)
\* for d's currentAmount, leaves d's other fields and every other debt as
\* they were and appends one payment record after those already there; no
\* balance is ever below zero.
C21_PaymentClampsAtZero ==
    /\ lastOp.name = "makePayment" =>
          /\ Len(data.debts) = Len(lastOp.prev.debts)
          /\ \A i \in 1..Len(data.debts) :
                data.debts[i] =
                    IF lastOp.prev.debts[i].id = lastOp.arg.debtId
                    THEN [lastOp.prev.debts[i] EXCEPT !.currentAmount =
                             BalanceAfter(@, lastOp.arg.amount)]
                    ELSE lastOp.prev.debts[i]
          /\ Len(data.payments) = Len(lastOp.prev.payments) + 1
          /\ SubSeq(data.payments, 1, Len(lastOp.prev.payments)) = lastOp.prev.payments
          /\ data.payments[Len(data.payments)].debtId = lastOp.arg.debtId
          /\ data.payments[Len(data.payments)].amount = lastOp.arg.amount
          /\ data.payments[Len(data.payments)].date = lastOp.arg.date
          /\ data.payments[Len(data.payments)].recordedBy = lastOp.currentUser
    /\ \A i \in 1..Len(data.debts) : data.debts[i].currentAmount >= 0

\* Two payments against BBVA, 2500 and then 50000 with 42500 owed: the
\* balance is 0, the other two debts are as they were, two records are kept.
C21_Witness ==
    /\ lastOp.name = "makePayment"
    /\ lastOp.arg.amount = 50000
    /\ Len(lastOp.prev.debts) = 3
    /\ lastOp.prev.debts[1].currentAmount = 42500
    /\ data.debts[1].currentAmount = 0
    /\ data.debts[2].currentAmount = 12000
    /\ data.debts[3].currentAmount = 750000
    /\ Len(data.payments) = 2
    /\ data.payments[1].amount = 2500

(***************************************************************************)
(* Two sessions of the App on one localStorage.  Of each session only what *)
(* the exchange reads and writes is kept: its snapshot, by content,        *)
(* whether the effects of its last render are still to run, and the        *)
(* 'storage' events it has not handled yet.                                *)
(***************************************************************************)
Sessions == { 1, 2 }

OtherOf(s) == 3 - s

\* JSON.stringify of a snapshot given by its content
TextOf(content) == [text |-> "json", value |-> content]

\* Both sessions are mounted on the default snapshot, which is saved.
InitTwo ==
    /\ sessions = [s \in Sessions |->
                      [data    |-> Seen(INITIAL_STATE, InitialHeap),
                       pending |-> FALSE,
                       events  |-> <<>>]]
    /\ storage = Some(Stringify(INITIAL_STATE, InitialHeap))
    /\ ops = [n |-> 0, ids |-> 0]
    /\ data = NoSnapshot
    /\ payoffSummary = <<>>
    /\ timeCells = <<>>
    /\ view = "app"
    /\ today = [day |-> 15, dow |-> 4, time |-> 0]
    /\ notifications = <<>>
    /\ evalLog = <<>>
    /\ phase = "mounted"
    /\ pending = "none"
    /\ currentUser = "Edna"
    /\ pushEnabled = FALSE
    /\ requesting = FALSE
    /\ listening = TRUE
    /\ timers = {}
    /\ interval = 0
    /\ heap = InitialHeap
    /\ lastOp = [name |-> "none"]
    /\ permission = "denied"
    /\ visibility = "visible"
    /\ alerts = <<>>
    /\ events = <<>>
    /\ utcDate = <<"2024-02", "-15">>
    /\ uncaught = <<>>

\* handleDeleteDebt(id) in session s: setData is rendered.
SessionDeletesDebt(s, id) ==
    /\ ops.n < MaxOps
    /\ ~sessions[s].pending
    /\ sessions' = [sessions EXCEPT
                       ![s].data.debts = SelectSeq(@, LAMBDA d : d.id # id),
                       ![s].pending = TRUE]
    /\ ops' = [ops EXCEPT !.n = @ + 1]
    /\ UNCHANGED <<data, payoffSummary, timeCells, view, today, notifications, evalLog>>
    /\ UNCHANGED <<phase, pending, currentUser, pushEnabled, requesting,
                   listening, timers, interval, heap, lastOp>>
    /\ UNCHANGED platformVars

\* The persist effect of session s: setItem under the key; the other
\* session is sent a 'storage' event when the value under the key changes.
SessionPersists(s) ==
    /\ sessions[s].pending
    /\ storage' = Some(TextOf(sessions[s].data))
    /\ sessions' = [sessions EXCEPT
                       ![s].pending = FALSE,
                       ![OtherOf(s)].events =
                           IF Some(TextOf(sessions[s].data)) # storage
                           THEN Append(@, [key |-> StorageKey,
                                           newValue |-> Some(TextOf(sessions[s].data))])
                           ELSE @]
    /\ UNCHANGED <<data, payoffSummary, timeCells, view, today, notifications, evalLog>>
    /\ UNCHANGED appVars
    /\ UNCHANGED <<permission, visibility, alerts, events, utcDate, uncaught>>

\* handleStorageChange of session s on its next 'storage' event: the
\* snapshot is replaced by the parsed value and the render is committed.
SessionStorageChange(s) ==
    /\ sessions[s].events # <<>>
    /\ ~sessions[s].pending
    /\ sessions' =
          IF /\ Head(sessions[s].events).key = StorageKey
             /\ TruthyText(Head(sessions[s].events).newValue)
             /\ Parses(Head(sessions[s].events).newValue[1])
          THEN [sessions EXCEPT
                   ![s].events = Tail(@),
                   ![s].data = Head(sessions[s].events).newValue[1].value,
                   ![s].pending = TRUE]
          ELSE [sessions EXCEPT ![s].events = Tail(@)]
    /\ UNCHANGED <<data, payoffSummary, timeCells, view, today, notifications, evalLog>>
    /\ UNCHANGED appVars
    /\ UNCHANGED platformVars

NextTwo ==
    \/ \E s \in Sessions : \E id \in { "1", "2", "3" } : SessionDeletesDebt(s, id)
    \/ \E s \in Sessions : SessionPersists(s)
    \/ \E s \in Sessions : SessionStorageChange(s)

\* Every effect that is to run runs and every event is dispatched.
SpecTwo ==
    /\ InitTwo
    /\ [][NextTwo]_vars
    /\ \A s \in Sessions : WF_vars(SessionPersists(s)) /\ WF_vars(SessionStorageChange(s))

\* Nothing is left to do, and both sessions hold what is saved.
Converged ==
    /\ \A s \in Sessions :
          /\ ~sessions[s].pending
          /\ sessions[s].events = <<>>
          /\ Some(TextOf(sessions[s].data)) = storage

\* C22: two sessions on the key, each saving after every change and taking
\* the other's value on every event: once the users stop, the sessions and
\* the store come to hold one snapshot and the exchange ends, whatever the
\* order of the events and the writes.
C22_SessionsConverge == <>[]Converged

====
